---- MODULE Spec2Model ----
(***************************************************************************)
(* The automated trading loop of traderbot (services/automatedTrader.js)   *)
(* with the signal generator it calls (services/signalGenerator.js) and    *)
(* the brokerage gateway it talks to (config/alpaca.js).                   *)
(*                                                                         *)
(* Node runs one macrotask at a time: the code between two awaits that     *)
(* wait for a timer or for the network is one atomic step.  An await of an *)
(* async function that itself never waits resumes in the same macrotask,   *)
(* so such a call is part of the step that makes it.                       *)
(*                                                                         *)
(* Numbers with a fractional part (confidences) are exact rationals        *)
(* <<numerator, denominator>> in lowest terms.                             *)
(***************************************************************************)
EXTENDS Integers, Sequences, FiniteSets, TLC

VARIABLES
    isRunning,        \* AutomatedTrader.isRunning
    tradingInterval,  \* AutomatedTrader.tradingInterval: a timer id, or NullTimer
    watchedSymbols,   \* AutomatedTrader.watchedSymbols
    maxPositionSize,  \* AutomatedTrader.maxPositionSize
    minConfidence,    \* AutomatedTrader.minConfidence
    rsiOversold,      \* SignalGenerator.rsiOversold
    rsiOverbought,    \* SignalGenerator.rsiOverbought
    timers,           \* the armed setInterval timers of the process: [id, period]
    cycles,           \* the checkAndExecuteTrades calls in flight, by slot
    orders,           \* the gateway's orders; an order's id is its index
    generated,        \* the signal that generateRSISignal returned last
    sized,            \* the last two getPositionSize calls with what they returned
    offered,          \* the inputs the environment offers; fixed by Init
    startsSinceStop,  \* history: startTrading calls since the last stopTrading call
    stopReturned,     \* history: stopTrading returned and startTrading was not called since
    last              \* history: the step taken last

traderVars == <<isRunning, tradingInterval, watchedSymbols, maxPositionSize, minConfidence>>
genVars    == <<rsiOversold, rsiOverbought, generated, sized, offered>>
histVars   == <<startsSinceStop, stopReturned, last>>
vars == <<isRunning, tradingInterval, watchedSymbols, maxPositionSize, minConfidence,
          rsiOversold, rsiOverbought, generated, sized, timers, cycles, orders,
          offered,
          startsSinceStop, stopReturned, last>>

-----------------------------------------------------------------------------
(* Bounds of the model *)

MaxWatch  == 2   \* symbols of the default watchlist that are kept
MaxCycles == 2   \* checkAndExecuteTrades calls in flight at the same time
MaxTimers == 2   \* timers armed, or about to be armed by a startTrading in flight
MaxOrdersTrade  == 2    \* orders the gateway ever holds under SpecTrade
MaxOrdersParams == 1    \* the same under SpecParams, SpecStop and SpecTick
MaxOverlapTrade  == 1   \* cycles in flight at the same time under SpecTrade,
                        \* SpecStop and SpecTick
MaxOverlapParams == 1   \* cycles in flight at the same time under SpecParams

-----------------------------------------------------------------------------
(* Exact rationals *)

RECURSIVE GCD(_, _)
GCD(a, b) == IF b = 0 THEN a ELSE GCD(b, a % b)

\* The operations are functions of their arguments, so that an argument is
\* evaluated once however often the operation uses it.
Pairs == Int \X Int

RatOf  == [n \in Int, d \in Int |-> LET g == GCD(n, d) IN <<n \div g, d \div g>>]
RAddOf == [a \in Pairs, b \in Pairs |-> RatOf[a[1] * b[2] + b[1] * a[2], a[2] * b[2]]]
RMulOf == [a \in Pairs, b \in Pairs |-> RatOf[a[1] * b[1], a[2] * b[2]]]
RGeqOf == [a \in Pairs, b \in Pairs |-> a[1] * b[2] >= b[1] * a[2]]
RLtOf  == [a \in Pairs, b \in Pairs |-> a[1] * b[2] < b[1] * a[2]]
RMinOf == [a \in Pairs, b \in Pairs |-> IF RLtOf[b, a] THEN b ELSE a]

Rat(n, d)  == RatOf[n, d]
RAdd(a, b) == RAddOf[a, b]
RMul(a, b) == RMulOf[a, b]
RGeq(a, b) == RGeqOf[a, b]
RLt(a, b)  == RLtOf[a, b]
RMin(a, b) == RMinOf[a, b]
RFloor(a)  == a[1] \div a[2]

Zero   == Rat(0, 1)
One    == Rat(1, 1)

-----------------------------------------------------------------------------
(* An optional argument: {} when it is not given (undefined), {v} when it is v *)

Absent     == {}
Given(v)   == {v}
IsGiven(o) == o # {}
ValueOf(o) == CHOOSE v \in o : TRUE

\* A value of a request's JSON body: a string, a number or an array of values
JsonString(s) == [type |-> "string", value |-> s]
JsonNumber(n) == [type |-> "number", value |-> n]
JsonArray(a)  == [type |-> "array", items |-> a]

-----------------------------------------------------------------------------
(* services/signalGenerator.js *)

genMinConfidence == Rat(6, 10)      \* SignalGenerator.minConfidence

\* calculateBuyConfidence(indicators); rsi and the prices are integers here
calculateBuyConfidence(indicators) ==
    LET rsiStrength == Rat(rsiOversold - indicators.rsi, rsiOversold)
        c1 == RAdd(Rat(6, 10), RMul(rsiStrength, Rat(3, 10)))
        c2 == IF indicators.currentPrice > indicators.sma20 THEN RAdd(c1, Rat(1, 10)) ELSE c1
        c3 == IF indicators.sma20 > indicators.sma50 THEN RAdd(c2, Rat(1, 10)) ELSE c2
    IN  RMin(c3, One)

\* calculateSellConfidence(indicators)
calculateSellConfidence(indicators) ==
    LET rsiStrength == Rat(indicators.rsi - rsiOverbought, 100 - rsiOverbought)
        c1 == RAdd(Rat(6, 10), RMul(rsiStrength, Rat(3, 10)))
        c2 == IF indicators.currentPrice < indicators.sma20 THEN RAdd(c1, Rat(1, 10)) ELSE c1
        c3 == IF indicators.sma20 < indicators.sma50 THEN RAdd(c2, Rat(1, 10)) ELSE c2
    IN  RMin(c3, One)

\* the decision with the overbought comparison made first
rsiDecisionSellFirst(indicators, k) ==
    LET randomFactor == Rat(k, 100) IN
    IF indicators.rsi > rsiOverbought
      THEN [signal |-> "SELL", confidence |-> calculateSellConfidence(indicators),
            reason |-> <<"RSI overbought">>]
    ELSE IF indicators.rsi < rsiOversold
      THEN [signal |-> "BUY", confidence |-> calculateBuyConfidence(indicators),
            reason |-> <<"RSI oversold">>]
    ELSE IF indicators.isMockData /\ RLt(randomFactor, Rat(25, 100))
      THEN IF RLt(randomFactor, Rat(125, 1000))
             THEN [signal |-> "BUY",
                   confidence |-> RAdd(Rat(5, 10), RMul(randomFactor, Rat(3, 10))),
                   reason |-> <<"Mock BUY signal for testing">>]
             ELSE [signal |-> "SELL",
                   confidence |-> RAdd(Rat(5, 10),
                                       RMul(Rat(k * 10 - 125, 1000), Rat(24, 10))),
                   reason |-> <<"Mock SELL signal for testing">>]
    ELSE [signal |-> "HOLD", confidence |-> Zero, reason |-> <<"RSI neutral">>]

\* the decision with the mock BUY on the slope of the mock SELL
rsiDecisionMockBuySteep(indicators, k) ==
    LET randomFactor == Rat(k, 100) IN
    IF indicators.rsi < rsiOversold
      THEN [signal |-> "BUY", confidence |-> calculateBuyConfidence(indicators),
            reason |-> <<"RSI oversold">>]
    ELSE IF indicators.rsi > rsiOverbought
      THEN [signal |-> "SELL", confidence |-> calculateSellConfidence(indicators),
            reason |-> <<"RSI overbought">>]
    ELSE IF indicators.isMockData /\ RLt(randomFactor, Rat(25, 100))
      THEN IF RLt(randomFactor, Rat(125, 1000))
             THEN [signal |-> "BUY",
                   confidence |-> RAdd(Rat(5, 10), RMul(randomFactor, Rat(24, 10))),
                   reason |-> <<"Mock BUY signal for testing">>]
             ELSE [signal |-> "SELL",
                   confidence |-> RAdd(Rat(5, 10),
                                       RMul(Rat(k * 10 - 125, 1000), Rat(24, 10))),
                   reason |-> <<"Mock SELL signal for testing">>]
    ELSE [signal |-> "HOLD", confidence |-> Zero, reason |-> <<"RSI neutral">>]

\* The decision of generateRSISignal before the moving-average confirmation:
\* the RSI thresholds, then the mock promotion of a neutral RSI.  randomFactor
\* is ((timeBasedSeed + symbolHash) % 100) / 100, given as its numerator k.
rsiDecision(indicators, k) ==
    LET randomFactor == Rat(k, 100) IN
    IF indicators.rsi < rsiOversold
      THEN [signal |-> "BUY", confidence |-> calculateBuyConfidence(indicators),
            reason |-> <<"RSI oversold">>]
    ELSE IF indicators.rsi > rsiOverbought
      THEN [signal |-> "SELL", confidence |-> calculateSellConfidence(indicators),
            reason |-> <<"RSI overbought">>]
    ELSE IF indicators.isMockData /\ RLt(randomFactor, Rat(25, 100))
      THEN IF RLt(randomFactor, Rat(125, 1000))
             THEN [signal |-> "BUY",
                   confidence |-> RAdd(Rat(5, 10), RMul(randomFactor, Rat(3, 10))),
                   reason |-> <<"Mock BUY signal for testing">>]
             ELSE [signal |-> "SELL",
                   confidence |-> RAdd(Rat(5, 10),
                                       RMul(Rat(k * 10 - 125, 1000), Rat(24, 10))),
                   reason |-> <<"Mock SELL signal for testing">>]
    ELSE [signal |-> "HOLD", confidence |-> Zero, reason |-> <<"RSI neutral">>]

\* generateRSISignal with shouldExecute: confidence > this.minConfidence
generateRSISignalStrict(symbol, indicators, k) ==
    LET d == rsiDecision(indicators, k)
        buyConfirmed  == d.signal = "BUY" /\ indicators.currentPrice > indicators.sma20
        sellConfirmed == d.signal = "SELL" /\ indicators.currentPrice < indicators.sma20
        confidence ==
            IF buyConfirmed \/ sellConfirmed THEN RAdd(d.confidence, Rat(1, 10))
                                             ELSE d.confidence
    IN  [symbol        |-> symbol,
         signal        |-> d.signal,
         confidence    |-> RMin(confidence, One),
         reason        |-> IF buyConfirmed THEN Append(d.reason, "Price above SMA20")
                           ELSE IF sellConfirmed THEN Append(d.reason, "Price below SMA20")
                           ELSE d.reason,
         shouldExecute |-> RLt(genMinConfidence, confidence)]

\* generateRSISignal reporting the confidence without Math.min(confidence, 1.0)
generateRSISignalUncapped(symbol, indicators, k) ==
    LET d == rsiDecision(indicators, k)
        buyConfirmed  == d.signal = "BUY" /\ indicators.currentPrice > indicators.sma20
        sellConfirmed == d.signal = "SELL" /\ indicators.currentPrice < indicators.sma20
        confidence ==
            IF buyConfirmed \/ sellConfirmed THEN RAdd(d.confidence, Rat(1, 10))
                                             ELSE d.confidence
    IN  [symbol        |-> symbol,
         signal        |-> d.signal,
         confidence    |-> confidence,
         reason        |-> IF buyConfirmed THEN Append(d.reason, "Price above SMA20")
                           ELSE IF sellConfirmed THEN Append(d.reason, "Price below SMA20")
                           ELSE d.reason,
         shouldExecute |-> RGeq(confidence, genMinConfidence)]

\* generateRSISignal with the confirmation by the price applied to every signal
generateRSISignalConfirmingHold(symbol, indicators, k) ==
    LET d == rsiDecision(indicators, k)
        buyConfirmed  == d.signal # "SELL" /\ indicators.currentPrice > indicators.sma20
        sellConfirmed == d.signal = "SELL" /\ indicators.currentPrice < indicators.sma20
        confidence ==
            IF buyConfirmed \/ sellConfirmed THEN RAdd(d.confidence, Rat(1, 10))
                                             ELSE d.confidence
    IN  [symbol        |-> symbol,
         signal        |-> d.signal,
         confidence    |-> RMin(confidence, One),
         reason        |-> IF buyConfirmed THEN Append(d.reason, "Price above SMA20")
                           ELSE IF sellConfirmed THEN Append(d.reason, "Price below SMA20")
                           ELSE d.reason,
         shouldExecute |-> RGeq(confidence, genMinConfidence)]

\* generateRSISignal(symbol) on the indicators and the random factor it drew:
\* the try block, lines 55-124.  The reason is the sequence of its parts.
generateRSISignal(symbol, indicators, k) ==
    LET d == rsiDecision(indicators, k)
        buyConfirmed  == d.signal = "BUY" /\ indicators.currentPrice > indicators.sma20
        sellConfirmed == d.signal = "SELL" /\ indicators.currentPrice < indicators.sma20
        confidence ==
            IF buyConfirmed \/ sellConfirmed THEN RAdd(d.confidence, Rat(1, 10))
                                             ELSE d.confidence
    IN  [symbol        |-> symbol,
         signal        |-> d.signal,
         confidence    |-> RMin(confidence, One),
         reason        |-> IF buyConfirmed THEN Append(d.reason, "Price above SMA20")
                           ELSE IF sellConfirmed THEN Append(d.reason, "Price below SMA20")
                           ELSE d.reason,
         shouldExecute |-> RGeq(confidence, genMinConfidence)]

\* the catch block with shouldExecute: true
errorSignalExecutable(symbol, message) ==
    [symbol        |-> symbol,
     signal        |-> "HOLD",
     confidence    |-> Zero,
     reason        |-> <<"Error: ", message>>,
     shouldExecute |-> TRUE]

\* the catch block of generateRSISignal, lines 126-136
errorSignal(symbol, message) ==
    [symbol        |-> symbol,
     signal        |-> "HOLD",
     confidence    |-> Zero,
     reason        |-> <<"Error: ", message>>,
     shouldExecute |-> FALSE]

\* What a generateRSISignal call draws is <<indicators, k>>, or <<message>> when
\* an exception with that message is thrown while the indicators are derived
\* (symbol.split on a symbol that is no string, line 29).
Throws(draw) == Len(draw) = 1

\* generateRSISignal(symbol) with its try and catch
generateSignal(symbol, draw) ==
    IF Throws(draw) THEN errorSignal(symbol, draw[1])
                    ELSE generateRSISignal(symbol, draw[1], draw[2])

\* symbol.split('').reduce((a, b) => a + b.charCodeAt(0), 0)
symbolHash(symbol) ==
    CASE symbol = "AAPL"  -> 65 + 65 + 80 + 76
      [] symbol = "MSFT"  -> 77 + 83 + 70 + 84
      [] symbol = "GOOGL" -> 71 + 79 + 79 + 71 + 76
      [] symbol = "TSLA"  -> 84 + 83 + 76 + 65
      [] symbol = "SPY"   -> 83 + 80 + 89

\* Math.sin(seed * 0.1) * 10, rounded to an integer, for the seeds that the
\* offered symbols and times give
sinTimes10(seed) ==
    CASE seed = 298 -> -10
      [] seed = 299 -> -10
      [] seed = 306 -> -7

\* Math.sin(seed * 0.05) * 20, rounded to an integer, for the same seeds
sinTimes20(seed) ==
    CASE seed = 298 -> 14
      [] seed = 299 -> 14
      [] seed = 306 -> 8

\* generateMockIndicators(symbol) at Date.now() = now, in minutes, with the two
\* Math.random() values it draws, in tenths: rsi and currentPrice come from the
\* seed of the 5-minute bucket, sma20 and sma50 from Math.random().
generateMockIndicators(symbol, now, random20, random50) ==
    LET timeBasedSeed == now \div 5
        seed          == (timeBasedSeed + symbolHash(symbol)) % 1000
        rsi           == 20 + (seed % 60) + sinTimes10(seed)
        basePrice     == 100 + (seed % 100)
        currentPrice  == basePrice + sinTimes20(seed)
    IN  [rsi          |-> IF rsi < 0 THEN 0 ELSE IF rsi > 100 THEN 100 ELSE rsi,
         sma20        |-> currentPrice + ((random20 - 5) * 10) \div 10,
         sma50        |-> currentPrice + ((random50 - 5) * 15) \div 10,
         currentPrice |-> currentPrice,
         isMockData   |-> TRUE]

\* What generateRSISignal(symbol) draws at Date.now() = now, in minutes: the
\* mock indicators, and the numerator of randomFactor from the 3-minute bucket
\* (lines 85-87).
mockDraw(symbol, now, random20, random50) ==
    <<generateMockIndicators(symbol, now, random20, random50),
      ((now \div 3) + symbolHash(symbol)) % 100>>

\* getPositionSize with Math.round in the place of Math.floor
getPositionSizeRounded(confidence, maxPosition) ==
    LET baseSize == RFloor(RAdd(RMul(confidence, Rat(maxPosition, 1)), Rat(1, 2)))
    IN  IF baseSize > 1 THEN baseSize ELSE 1

\* getPositionSize without Math.max(1, ...)
getPositionSizeNoMinimum(confidence, maxPosition) ==
    RFloor(RMul(confidence, Rat(maxPosition, 1)))

\* getPositionSize(confidence, maxPosition)
getPositionSize(confidence, maxPosition) ==
    LET baseSize == RFloor(RMul(confidence, Rat(maxPosition, 1)))
    IN  IF baseSize > 1 THEN baseSize ELSE 1

\* signal.signal.toLowerCase()
toLowerCase(signal) ==
    CASE signal = "BUY"  -> "buy"
      [] signal = "SELL" -> "sell"
      [] OTHER           -> "hold"

-----------------------------------------------------------------------------
(* Inputs *)

DefaultWatchlist == SubSeq(<<"AAPL", "MSFT", "GOOGL", "TSLA", "SPY">>, 1, MaxWatch)

\* what one generateRSISignal call draws: the indicators and the random factor
OversoldUptrend ==
    [rsi |-> 25, sma20 |-> 110, sma50 |-> 100, currentPrice |-> 112, isMockData |-> TRUE]
Neutral ==
    [rsi |-> 50, sma20 |-> 100, sma50 |-> 100, currentPrice |-> 100, isMockData |-> TRUE]

ThresholdBuy == <<OversoldUptrend, 50>>   \* BUY by the threshold, confidence 0.95
MockSell     == <<Neutral, 20>>           \* SELL by the mock promotion, confidence 0.68
Hold         == <<Neutral, 50>>           \* HOLD
MockBuy      == <<Neutral, 5>>            \* BUY by the mock promotion, confidence 0.515

NoParams == [symbols |-> Absent, maxPositionSize |-> Absent, minConfidence |-> Absent]

\* The inputs offered under Spec, which is about the scheduling: every kind
\* of symbols argument, parameter updates, overlapping cycles, and signals that
\* are never executable, so that a cycle is the batch evaluation and nothing else.
SchedulingInputs ==
    [signals   |-> {Hold},
     symbols   |-> {Absent, Given(<< >>), Given(<<"MSFT">>)},
     intervals |-> {10},
     params    |-> {[NoParams EXCEPT !.symbols = Given(<<"MSFT">>)],
                    [NoParams EXCEPT !.maxPositionSize = Given(5),
                                     !.minConfidence = Given(Rat(1, 2))]},
     manual    |-> {},
     overlap   |-> MaxCycles,
     orders    |-> 0]

\* The inputs offered under SpecTrade, which is about the trade execution:
\* cycles begun by POST /check, executable signals and orders of other clients
\* at the gateway.
TradeInputs ==
    [signals   |-> {ThresholdBuy},
     symbols   |-> {Absent},
     intervals |-> {10},
     params    |-> {NoParams},
     manual    |-> {<<DefaultWatchlist[1], "sell">>, <<DefaultWatchlist[1], "buy">>},
     overlap   |-> MaxOverlapTrade,
     orders    |-> MaxOrdersTrade]

\* The inputs offered under SpecParams, which is about the parameters: every
\* kind of updateParameters argument and of signal.
ParameterInputs ==
    [signals   |-> {ThresholdBuy, MockSell, Hold},
     symbols   |-> {Absent},
     intervals |-> {10},
     params    |-> {NoParams,
                    [NoParams EXCEPT !.symbols = Given(<< >>)],
                    [NoParams EXCEPT !.maxPositionSize = Given(5)],
                    [NoParams EXCEPT !.minConfidence = Given(Zero)],
                    [NoParams EXCEPT !.minConfidence = Given(Rat(1, 2))]},
     manual    |-> {},
     overlap   |-> MaxOverlapParams,
     orders    |-> MaxOrdersParams]

\* The inputs offered under SpecFilter, which is about the filter of a cycle:
\* a signal with shouldExecute and a confidence between the generator's and the
\* loop's default minConfidence, one without shouldExecute and a confidence of
\* more than one half, and an update of minConfidence to one half.  (A HOLD
\* has the confidence 0 and no shouldExecute: it fails every condition of the
\* filter.)
FilterInputs ==
    [signals   |-> {MockSell, MockBuy},
     symbols   |-> {Absent},
     intervals |-> {10},
     params    |-> {[NoParams EXCEPT !.minConfidence = Given(Rat(1, 2))]},
     manual    |-> {},
     overlap   |-> MaxOverlapParams,
     orders    |-> MaxOrdersParams]

\* The inputs offered under SpecDup, which is about a watchlist that names a
\* symbol twice: given to startTrading, or set by updateParameters.
DupInputs ==
    [signals   |-> {ThresholdBuy},
     symbols   |-> {Given(<<DefaultWatchlist[1], DefaultWatchlist[1]>>)},
     intervals |-> {10},
     params    |-> {[NoParams EXCEPT !.symbols =
                        Given(<<DefaultWatchlist[1], DefaultWatchlist[1]>>)]},
     manual    |-> {},
     overlap   |-> MaxOverlapParams,
     orders    |-> MaxOrdersTrade]

\* The inputs offered under SpecFair, which is about termination: the default
\* watchlist, executable signals, orders placed by hand for the trades to
\* cancel, and one cycle in flight at a time.
FairInputs ==
    [signals   |-> {ThresholdBuy},
     symbols   |-> {Absent},
     intervals |-> {10},
     params    |-> {NoParams},
     manual    |-> {<<DefaultWatchlist[1], "sell">>},
     overlap   |-> 1,
     orders    |-> MaxOrdersParams]

\* The inputs offered under SpecOrder, which is about the orders that the loop
\* submits: a BUY that is executable under the defaults, and an update of
\* maxPositionSize.
OrderInputs ==
    [signals   |-> {ThresholdBuy},
     symbols   |-> {Absent},
     intervals |-> {10},
     params    |-> {[NoParams EXCEPT !.maxPositionSize = Given(5)]},
     manual    |-> {},
     overlap   |-> MaxOverlapParams,
     orders    |-> MaxOrdersParams]

\* a generateRSISignal call in which symbol.split throws
SplitThrows == <<"symbol.split is not a function">>

NeutralAbove ==
    [rsi |-> 50, sma20 |-> 100, sma50 |-> 90, currentPrice |-> 105, isMockData |-> TRUE]
NeutralBelow ==
    [rsi |-> 50, sma20 |-> 100, sma50 |-> 110, currentPrice |-> 95, isMockData |-> TRUE]

MockBuyConfirmed  == <<NeutralAbove, 12>>   \* the mock BUY of the highest confidence, 0.636
MockSellConfirmed == <<NeutralBelow, 24>>   \* the mock SELL of the highest confidence, 0.876
HoldConfirmed     == <<NeutralAbove, 50>>   \* HOLD with the price above SMA20

\* The inputs offered under SpecMock, which is about the signals of a neutral
\* RSI under the default parameters: mock BUYs and SELLs of the lowest and
\* the highest confidence, HOLDs, and a call that throws; one cycle in flight
\* at a time.
MockInputs ==
    [signals   |-> {MockBuy, MockBuyConfirmed, MockSell, MockSellConfirmed,
                    HoldConfirmed, SplitThrows},
     symbols   |-> {Absent},
     intervals |-> {10},
     params    |-> {NoParams},
     manual    |-> {},
     overlap   |-> 1,
     orders    |-> MaxOrdersParams]

\* The inputs offered under SpecStop, which is about a cycle's course when the
\* loop is stopped: executable signals, and an order of another client on the
\* other side for the last symbol.
StopInputs ==
    [signals   |-> {ThresholdBuy},
     symbols   |-> {Absent},
     intervals |-> {10},
     params    |-> {NoParams},
     manual    |-> {<<DefaultWatchlist[MaxWatch], "sell">>},
     overlap   |-> MaxOverlapTrade,
     orders    |-> MaxOrdersParams]

\* The inputs offered under SpecTick, which is about the timer's cycles when
\* something fails: executable signals and failing signal generations, and an
\* order of another client on the other side.
TickInputs ==
    [signals   |-> {ThresholdBuy, SplitThrows},
     symbols   |-> {Absent},
     intervals |-> {10},
     params    |-> {NoParams},
     manual    |-> {<<DefaultWatchlist[1], "sell">>},
     overlap   |-> MaxOverlapTrade,
     orders    |-> MaxOrdersParams]

\* The inputs offered under SpecInterval, which is about the timer's period:
\* intervals inside, on the ends of and outside the range that POST /start
\* admits.
IntervalInputs ==
    [signals   |-> {Hold},
     symbols   |-> {Absent, Given(<< >>)},
     intervals |-> {0, 1, 10, 1440, 1441},
     params    |-> {NoParams},
     manual    |-> {},
     overlap   |-> MaxCycles,
     orders    |-> 0]

\* The inputs offered under SpecStart, which is about POST /start and
\* GET /status: bodies with and without a watchlist, with a symbols value that
\* is a string and one that is an array of a number, and with intervals
\* inside and on both sides outside 1..1440.
StartInputs ==
    [signals   |-> {Hold},
     symbols   |-> {Absent},
     bodies    |-> [symbols : {Absent,
                               Given(JsonArray(<<JsonString("MSFT")>>)),
                               Given(JsonString("MSFT")),
                               Given(JsonArray(<<JsonNumber(7)>>))},
                    intervalMinutes : {Absent, Given(0), Given(1440), Given(1441)}],
     intervals |-> {10},
     params    |-> {NoParams},
     manual    |-> {},
     overlap   |-> MaxOverlapTrade,
     orders    |-> 0]

\* The inputs offered under SpecBusy, which is about cycles in flight at the
\* same time: every signal is an executable BUY, the trader is started with a
\* watchlist of one symbol, and the gateway refuses every order.
BusyInputs ==
    [signals   |-> {ThresholdBuy},
     symbols   |-> {Given(<<DefaultWatchlist[1]>>)},
     intervals |-> {1},
     params    |-> {NoParams},
     manual    |-> {},
     overlap   |-> MaxCycles,
     orders    |-> 0]

\* The inputs offered under SpecGen, which is about the signal generator: RSI
\* values on both sides of and on the thresholds, prices on both sides of the
\* averages, random factors that make the mock promotion a BUY (0), a SELL (20)
\* and nothing (50), a call that throws, and thresholds as PUT /parameters
\* admits them (30/70, 40/60) and as only a direct call can set them (60/40,
\* 50/50).
GeneratorDraws ==
    {<<[rsi |-> r, sma20 |-> 100, sma50 |-> pm[2], currentPrice |-> pm[1],
        isMockData |-> TRUE], k>> :
        r \in {0, 25, 30, 50, 70, 75, 100}, pm \in {<<105, 90>>, <<95, 110>>},
        k \in {0, 20, 50}}
    \cup {ThresholdBuy, SplitThrows}

GeneratorInputs ==
    [signals    |-> GeneratorDraws,
     symbols    |-> {Given(<<DefaultWatchlist[1]>>)},
     thresholds |-> {<<30, 70>>, <<40, 60>>, <<60, 40>>, <<50, 50>>},
     times      |-> {60, 61, 65, 100},
     randoms    |-> {1, 5, 9},
     intervals  |-> {10},
     params     |-> {NoParams},
     manual     |-> {},
     overlap    |-> 0,
     orders     |-> 0]

\* The inputs offered under SpecSize, which is about getPositionSize:
\* confidences from 0 to 1 and position limits as PUT /parameters admits them
\* (1 to 100).
SizeInputs ==
    [signals     |-> {},
     symbols     |-> {Absent},
     confidences |-> {Zero, Rat(1, 10), Rat(19, 100), Rat(1, 2), Rat(58, 100),
                      Rat(9, 10), One},
     positions   |-> {1, 5, 10, 100},
     intervals   |-> {10},
     params      |-> {NoParams},
     manual      |-> {},
     overlap     |-> 0,
     orders      |-> 0]

-----------------------------------------------------------------------------
(* services/automatedTrader.js *)

NullTimer == 0
NoCycle   == [pc |-> "idle"]

\* no generateRSISignal call has returned yet
NotGenerated == [symbol |-> "", signal |-> "NONE", confidence |-> Zero,
                 reason |-> << >>, shouldExecute |-> FALSE]

Slots     == 1..MaxCycles
FreeSlots == {c \in Slots : cycles[c].pc = "idle"}
InFlight  == {c \in Slots : cycles[c].pc # "idle"}
StartsInFlight == {c \in InFlight : cycles[c].origin = "start"}

Min(S) == CHOOSE x \in S : \A y \in S : x <= y

RECURSIVE SortedSeq(_)
SortedSeq(S) == IF S = {} THEN << >> ELSE <<Min(S)>> \o SortedSeq(S \ {Min(S)})

\* getStatus() returning what the constructor set
getStatusDefaults ==
    [isRunning       |-> FALSE,
     watchedSymbols  |-> DefaultWatchlist,
     maxPositionSize |-> 10,
     minConfidence   |-> Rat(7, 10),
     nextCheck       |-> "Stopped"]

\* getStatus()
getStatus ==
    [isRunning       |-> isRunning,
     watchedSymbols  |-> watchedSymbols,
     maxPositionSize |-> maxPositionSize,
     minConfidence   |-> minConfidence,
     nextCheck       |-> IF tradingInterval # NullTimer THEN "Running" ELSE "Stopped"]

\* executeTradeFromSignal has not returned
NotReturned == [success |-> FALSE]

\* what executeTradeFromSignal returns after the order was placed, lines 156-161
TradeSucceeded(signal, orderId, positionSize) ==
    [success |-> TRUE, orderId |-> orderId, signal |-> signal,
     positionSize |-> positionSize]

\* the catch block with success: true
TradeFailedAsSuccess(signal, message) ==
    [success |-> TRUE, error |-> message, signal |-> signal]

\* what the catch block of executeTradeFromSignal returns, lines 163-170
TradeFailed(signal, message) ==
    [success |-> FALSE, error |-> message, signal |-> signal]

\* A checkAndExecuteTrades call as it is entered: generateSignalsForSymbols gets
\* the watchlist array of that moment.  Of the trade being executed: exec[j] is
\* its signal, opp the opposite side orders not yet handled.  History:
\* minConfAtBegin and maxPosAtBegin are the parameters in force as the call was
\* entered; of the trade being executed, existing is the answer to the
\* open-orders query, cancelReq the orders a cancel request was sent for,
\* cancelOk those whose request succeeded, result how the trade ended, returned
\* what executeTradeFromSignal returned, runningAtTrade the isRunning that the
\* trade found as it was entered, calls the gateway calls it has issued, in
\* their order, each with the order it is about (0 for none), queried how its
\* open-orders query ended, submitted the symbols of the orders that the cycle
\* has placed.
NewCycle(origin, intervalMinutes, symbols) ==
    [pc             |-> "gen",
     origin         |-> origin,
     interval       |-> intervalMinutes,
     symbols        |-> symbols,
     signals        |-> << >>,
     exec           |-> << >>,
     j              |-> 0,
     positionSize   |-> 0,
     opp            |-> << >>,
     existing       |-> {},
     cancelReq      |-> {},
     cancelOk       |-> {},
     calls          |-> << >>,
     queried        |-> "no",
     submitted      |-> << >>,
     result         |-> "none",
     returned       |-> NotReturned,
     runningAtTrade |-> TRUE,
     minConfAtBegin |-> minConfidence,
     maxPosAtBegin  |-> maxPositionSize]

\* the filter without `signal.confidence >= this.minConfidence`
ShouldExecuteSignals(signals) ==
    SelectSeq(signals, LAMBDA s : s.shouldExecute /\ s.signal # "HOLD")

\* the filter of checkAndExecuteTrades, lines 73-77
ExecutableSignals(signals) ==
    SelectSeq(signals, LAMBDA s : /\ s.shouldExecute
                                  /\ RGeq(s.confidence, minConfidence)
                                  /\ s.signal # "HOLD")

\* executeTradeFromSignal entered for the j-th executable signal: the position
\* size is computed, then the open-orders query is sent
BeginTrade(cy, j) ==
    [cy EXCEPT !.j = j,
               !.positionSize = getPositionSize(cy.exec[j].confidence, maxPositionSize),
               !.opp = << >>, !.existing = {}, !.cancelReq = {}, !.cancelOk = {},
               !.calls = << <<"GET", 0>> >>, !.queried = "pending",
               !.result = "none", !.returned = NotReturned,
               !.runningAtTrade = isRunning, !.pc = "query"]

\* generateSignalsForSymbols has returned: filter, then the first trade, or
\* the end of the cycle when nothing is executable
AfterSignals(cy) ==
    LET exec == ExecutableSignals(cy.signals) IN
    IF exec = << >> THEN [cy EXCEPT !.pc = "done"]
                    ELSE BeginTrade([cy EXCEPT !.exec = exec], 1)

\* the for loop with `if (!this.isRunning) break`
AfterTradeWhileRunning(cy) ==
    IF isRunning /\ cy.j < Len(cy.exec) THEN BeginTrade(cy, cy.j + 1)
                                        ELSE [cy EXCEPT !.pc = "done"]

\* the for loop with `if (!result.success) break`
AfterTradeUnlessFailed(cy) ==
    IF cy.returned.success /\ cy.j < Len(cy.exec) THEN BeginTrade(cy, cy.j + 1)
                                                  ELSE [cy EXCEPT !.pc = "done"]

\* the for loop executing a trade again until it succeeds
AfterTradeUntilSuccess(cy) ==
    IF ~cy.returned.success THEN BeginTrade(cy, cy.j)
    ELSE IF cy.j < Len(cy.exec) THEN BeginTrade(cy, cy.j + 1)
                                ELSE [cy EXCEPT !.pc = "done"]

\* the for loop of checkAndExecuteTrades after the inter-trade delay
AfterTrade(cy) ==
    IF cy.j < Len(cy.exec) THEN BeginTrade(cy, cy.j + 1)
                           ELSE [cy EXCEPT !.pc = "done"]

FreeTimerId == Min({t \in 1..MaxTimers : \A x \in timers : x.id # t})

\* The call in slot c has reached cy.  When it has returned (pc = "done") and
\* startTrading awaited it, startTrading goes on in the same macrotask and
\* arms the timer (lines 37-39).
Continue(c, cy) ==
    IF cy.pc = "done"
      THEN /\ cycles' = [cycles EXCEPT ![c] = NoCycle]
           /\ IF cy.origin = "start"
                THEN /\ timers' = timers \cup
                           {[id |-> FreeTimerId, period |-> cy.interval * 60 * 1000]}
                     /\ tradingInterval' = FreeTimerId
                ELSE UNCHANGED <<timers, tradingInterval>>
      ELSE /\ cycles' = [cycles EXCEPT ![c] = cy]
           /\ UNCHANGED <<timers, tradingInterval>>

\* checkAndExecuteTrades() is called: up to the first wait.  The first symbol's
\* signal is generated at once; an empty watchlist ends the cycle at once.
BeginCycle(c, origin, intervalMinutes, symbols) ==
    LET cy == NewCycle(origin, intervalMinutes, symbols) IN
    IF symbols = << >>
      THEN Continue(c, AfterSignals(cy))
      ELSE \E inp \in offered.signals :
             Continue(c, [cy EXCEPT !.signals = <<generateSignal(symbols[1], inp)>>])

\* history: the operation called last with its argument and the isRunning it
\* found, or that a cycle or the gateway took a step since
Step(op, arg, was) == [op |-> op, arg |-> arg, was |-> was]
CycleStep   == Step("cycle", << >>, FALSE)
GatewayStep == Step("gateway", << >>, FALSE)

\* startTrading with the watchlist replaced before the isRunning guard
startTradingUnguardedWatchlist(symbols, intervalMinutes) ==
    /\ watchedSymbols' = IF IsGiven(symbols) THEN ValueOf(symbols) ELSE watchedSymbols
    /\ IF isRunning
         THEN UNCHANGED <<isRunning, tradingInterval, maxPositionSize, minConfidence,
                          timers, cycles>>
         ELSE /\ Cardinality(InFlight) < offered.overlap
              /\ Cardinality(timers) + Cardinality(StartsInFlight) < MaxTimers
              /\ isRunning' = TRUE
              /\ BeginCycle(Min(FreeSlots), "start", intervalMinutes, watchedSymbols')
              /\ UNCHANGED <<maxPositionSize, minConfidence>>
    /\ startsSinceStop' = IF startsSinceStop < 2 THEN startsSinceStop + 1 ELSE 2
    /\ stopReturned' = FALSE
    /\ last' = Step("start", <<symbols, intervalMinutes>>, isRunning)
    /\ UNCHANGED <<genVars, orders>>

\* startTrading(symbols, intervalMinutes)
startTrading(symbols, intervalMinutes) ==
    /\ IF isRunning
         THEN UNCHANGED <<traderVars, timers, cycles>>
         ELSE /\ Cardinality(InFlight) < offered.overlap
              /\ Cardinality(timers) + Cardinality(StartsInFlight) < MaxTimers
              /\ watchedSymbols' = IF IsGiven(symbols) THEN ValueOf(symbols)
                                                       ELSE watchedSymbols
              /\ isRunning' = TRUE
              /\ BeginCycle(Min(FreeSlots), "start", intervalMinutes, watchedSymbols')
              /\ UNCHANGED <<maxPositionSize, minConfidence>>
    /\ startsSinceStop' = IF startsSinceStop < 2 THEN startsSinceStop + 1 ELSE 2
    /\ stopReturned' = FALSE
    /\ last' = Step("start", <<symbols, intervalMinutes>>, isRunning)
    /\ UNCHANGED <<genVars, orders>>

\* the validators isArray(), isString() and isInt({min, max}) of
\* express-validator
isArray(v)  == v.type = "array"
isString(v) == v.type = "string"
isInt(n, min, max) == n \in min..max

\* the validators of POST /start without the one of intervalMinutes
StartBodyValidAnyInterval(body) ==
    IsGiven(body.symbols) =>
        /\ isArray(ValueOf(body.symbols))
        /\ \A i \in DOMAIN ValueOf(body.symbols).items :
              isString(ValueOf(body.symbols).items[i])

\* validationResult(req).isEmpty() for POST /start, lines 53-55: each field is
\* optional; symbols is an array, each of its elements a string,
\* intervalMinutes an integer from 1 to 1440
StartBodyValid(body) ==
    /\ IsGiven(body.symbols) =>
          /\ isArray(ValueOf(body.symbols))
          /\ \A i \in DOMAIN ValueOf(body.symbols).items :
                isString(ValueOf(body.symbols).items[i])
    /\ IsGiven(body.intervalMinutes) => isInt(ValueOf(body.intervalMinutes), 1, 1440)

\* POST /start with a JSON body: status 400 when the validation fails,
\* startTrading(symbols, intervalMinutes = 10) otherwise
PostStart(body) ==
    IF ~StartBodyValid(body)
      THEN /\ last' = Step("POST /start", <<body, 400>>, isRunning)
           /\ UNCHANGED <<traderVars, genVars, timers, cycles, orders,
                          startsSinceStop, stopReturned>>
      ELSE startTrading(
             IF IsGiven(body.symbols)
               THEN Given([i \in DOMAIN ValueOf(body.symbols).items |->
                              ValueOf(body.symbols).items[i].value])
               ELSE Absent,
             IF IsGiven(body.intervalMinutes) THEN ValueOf(body.intervalMinutes)
                                              ELSE 10)

\* GET /status: one getStatus() call
StatusRead ==
    /\ last' = Step("getStatus", getStatus, isRunning)
    /\ UNCHANGED <<traderVars, genVars, timers, cycles, orders, startsSinceStop,
                   stopReturned>>

\* stopTrading with isRunning cleared only together with a timer handle
stopTradingFlagWithHandle ==
    /\ IF ~isRunning
         THEN UNCHANGED <<isRunning, tradingInterval, timers>>
         ELSE IF tradingInterval # NullTimer
                THEN /\ isRunning' = FALSE
                     /\ timers' = {t \in timers : t.id # tradingInterval}
                     /\ tradingInterval' = NullTimer
                ELSE UNCHANGED <<isRunning, tradingInterval, timers>>
    /\ startsSinceStop' = 0
    /\ stopReturned' = TRUE
    /\ last' = Step("stop", << >>, isRunning)
    /\ UNCHANGED <<watchedSymbols, maxPositionSize, minConfidence, genVars, cycles, orders>>

\* stopTrading()
stopTrading ==
    /\ IF ~isRunning
         THEN UNCHANGED <<isRunning, tradingInterval, timers>>
         ELSE /\ isRunning' = FALSE
              /\ IF tradingInterval # NullTimer
                   THEN /\ timers' = {t \in timers : t.id # tradingInterval}
                        /\ tradingInterval' = NullTimer
                   ELSE UNCHANGED <<tradingInterval, timers>>
    /\ startsSinceStop' = 0
    /\ stopReturned' = TRUE
    /\ last' = Step("stop", << >>, isRunning)
    /\ UNCHANGED <<watchedSymbols, maxPositionSize, minConfidence, genVars, cycles, orders>>

\* updateParameters with `this.x = params.x || <default>` for the two numbers
updateParametersOrDefault(params) ==
    /\ watchedSymbols' = IF IsGiven(params.symbols)
                           THEN ValueOf(params.symbols) ELSE watchedSymbols
    /\ maxPositionSize' = IF IsGiven(params.maxPositionSize)
                               /\ ValueOf(params.maxPositionSize) # 0
                            THEN ValueOf(params.maxPositionSize) ELSE 10
    /\ minConfidence' = IF IsGiven(params.minConfidence)
                             /\ ValueOf(params.minConfidence) # Zero
                          THEN ValueOf(params.minConfidence) ELSE Rat(7, 10)
    /\ last' = Step("updateParameters", params, isRunning)
    /\ UNCHANGED <<isRunning, tradingInterval, timers, genVars, cycles, orders,
                   startsSinceStop, stopReturned>>

\* updateParameters(params); `if (params.x)` is false for undefined and for 0,
\* true for every array
updateParameters(params) ==
    /\ watchedSymbols' = IF IsGiven(params.symbols)
                           THEN ValueOf(params.symbols) ELSE watchedSymbols
    /\ maxPositionSize' = IF IsGiven(params.maxPositionSize)
                               /\ ValueOf(params.maxPositionSize) # 0
                            THEN ValueOf(params.maxPositionSize) ELSE maxPositionSize
    /\ minConfidence' = IF IsGiven(params.minConfidence)
                             /\ ValueOf(params.minConfidence) # Zero
                          THEN ValueOf(params.minConfidence) ELSE minConfidence
    /\ last' = Step("updateParameters", params, isRunning)
    /\ UNCHANGED <<isRunning, tradingInterval, timers, genVars, cycles, orders,
                   startsSinceStop, stopReturned>>

\* the timer's callback with a guard that skips the cycle while one is in flight
TimerTickSkipIfBusy ==
    /\ timers # {}
    /\ Cardinality(InFlight) < offered.overlap
    /\ IF InFlight # {}
         THEN UNCHANGED <<cycles, timers, tradingInterval>>
         ELSE BeginCycle(Min(FreeSlots), "timer", 0, watchedSymbols)
    /\ last' = Step("tick", << >>, isRunning)
    /\ UNCHANGED <<isRunning, watchedSymbols, maxPositionSize, minConfidence, genVars,
                   orders, startsSinceStop, stopReturned>>

\* setInterval's callback: checkAndExecuteTrades(), lines 37-39
TimerTick ==
    /\ timers # {}
    /\ Cardinality(InFlight) < offered.overlap
    /\ BeginCycle(Min(FreeSlots), "timer", 0, watchedSymbols)
    /\ last' = Step("tick", << >>, isRunning)
    /\ UNCHANGED <<isRunning, watchedSymbols, maxPositionSize, minConfidence, genVars,
                   orders, startsSinceStop, stopReturned>>

\* a manual check that marks the loop as running
ManualCheckMarkingRunning ==
    /\ Cardinality(InFlight) < offered.overlap
    /\ BeginCycle(Min(FreeSlots), "manual", 0, watchedSymbols)
    /\ isRunning' = TRUE
    /\ last' = Step("check", << >>, isRunning)
    /\ UNCHANGED <<watchedSymbols, maxPositionSize, minConfidence, genVars,
                   orders, startsSinceStop, stopReturned>>

\* POST /check: a manual checkAndExecuteTrades()
ManualCheck ==
    /\ Cardinality(InFlight) < offered.overlap
    /\ BeginCycle(Min(FreeSlots), "manual", 0, watchedSymbols)
    /\ last' = Step("check", << >>, isRunning)
    /\ UNCHANGED <<isRunning, watchedSymbols, maxPositionSize, minConfidence, genVars,
                   orders, startsSinceStop, stopReturned>>

\* generateSignalsForSymbols returning what it has after a signal that failed
SignalDelayOverAborting(c) ==
    /\ cycles[c].pc = "gen"
    /\ LET cy == cycles[c]
           n  == Len(cy.signals)
       IN  IF n < Len(cy.symbols) /\ cy.signals[n].reason[1] # "Error: "
             THEN \E inp \in offered.signals :
                    Continue(c, [cy EXCEPT !.signals = Append(@,
                                   generateSignal(cy.symbols[n + 1], inp))])
             ELSE Continue(c, AfterSignals(cy))
    /\ last' = CycleStep
    /\ UNCHANGED <<isRunning, watchedSymbols, maxPositionSize, minConfidence, genVars,
                   orders, startsSinceStop, stopReturned>>

\* generateSignalsForSymbols: the 100 ms delay after a signal is over; the next
\* symbol's signal, or the return to checkAndExecuteTrades
SignalDelayOver(c) ==
    /\ cycles[c].pc = "gen"
    /\ LET cy == cycles[c]
           n  == Len(cy.signals)
       IN  IF n < Len(cy.symbols)
             THEN \E inp \in offered.signals :
                    Continue(c, [cy EXCEPT !.signals = Append(@,
                                   generateSignal(cy.symbols[n + 1], inp))])
             ELSE Continue(c, AfterSignals(cy))
    /\ last' = CycleStep
    /\ UNCHANGED <<isRunning, watchedSymbols, maxPositionSize, minConfidence, genVars,
                   orders, startsSinceStop, stopReturned>>

\* the open orders of a symbol, as GET /v2/orders?status=open&symbol= answers
OpenOrders(symbol) ==
    {o \in 1..Len(orders) : orders[o].status = "open" /\ orders[o].symbol = symbol}

\* the filter with === for !==
SameSideOrders(existingOrders, signal) ==
    {o \in existingOrders : orders[o].side = toLowerCase(signal.signal)}

\* lines 116-118
OppositeSideOrders(existingOrders, signal) ==
    {o \in existingOrders : orders[o].side # toLowerCase(signal.signal)}

\* the open-orders query outside every try: its failure ends the call as an
\* unhandled rejection, which ends the process and with it the timers
OrdersQueriedUncaught(c) ==
    /\ cycles[c].pc = "query"
    /\ LET cy  == cycles[c]
           sig == cy.exec[cy.j]
           existingOrders == OpenOrders(sig.symbol)
           opp == OppositeSideOrders(existingOrders, sig)
       IN  \/ /\ cycles' = [cycles EXCEPT ![c] =
                    IF opp # {}
                      THEN [cy EXCEPT !.pc = "cancel", !.opp = SortedSeq(opp),
                                      !.existing = existingOrders,
                                      !.queried = "answered",
                                      !.cancelReq = {Min(opp)},
                                      !.calls = Append(@, <<"DELETE", Min(opp)>>)]
                      ELSE [cy EXCEPT !.pc = "submit", !.existing = existingOrders,
                                      !.queried = "answered",
                                      !.calls = Append(@, <<"POST", 0>>)]]
              /\ UNCHANGED timers
           \/ /\ cycles' = [c2 \in Slots |-> NoCycle]
              /\ timers' = {}
    /\ last' = CycleStep
    /\ UNCHANGED <<traderVars, genVars, orders, startsSinceStop, stopReturned>>

\* a failed open-orders query taken for an answer without orders: the order
\* is sent
OrdersQueriedFailureIgnored(c) ==
    /\ cycles[c].pc = "query"
    /\ LET cy  == cycles[c]
           sig == cy.exec[cy.j]
           existingOrders == OpenOrders(sig.symbol)
           opp == OppositeSideOrders(existingOrders, sig)
       IN  \/ cycles' = [cycles EXCEPT ![c] =
                    IF opp # {}
                      THEN [cy EXCEPT !.pc = "cancel", !.opp = SortedSeq(opp),
                                      !.existing = existingOrders,
                                      !.queried = "answered",
                                      !.cancelReq = {Min(opp)},
                                      !.calls = Append(@, <<"DELETE", Min(opp)>>)]
                      ELSE [cy EXCEPT !.pc = "submit", !.existing = existingOrders,
                                      !.queried = "answered",
                                      !.calls = Append(@, <<"POST", 0>>)]]
           \/ cycles' = [cycles EXCEPT ![c] =
                    [cy EXCEPT !.pc = "submit", !.queried = "failed",
                               !.calls = Append(@, <<"POST", 0>>)]]
    /\ last' = CycleStep
    /\ UNCHANGED <<traderVars, genVars, timers, orders, startsSinceStop, stopReturned>>

\* executeTradeFromSignal: the open-orders query is answered, or fails
OrdersQueried(c) ==
    /\ cycles[c].pc = "query"
    /\ LET cy  == cycles[c]
           sig == cy.exec[cy.j]
           existingOrders == OpenOrders(sig.symbol)
           opp == OppositeSideOrders(existingOrders, sig)
       IN  \/ cycles' = [cycles EXCEPT ![c] =
                    IF opp # {}
                      THEN [cy EXCEPT !.pc = "cancel", !.opp = SortedSeq(opp),
                                      !.existing = existingOrders,
                                      !.queried = "answered",
                                      !.cancelReq = {Min(opp)},
                                      !.calls = Append(@, <<"DELETE", Min(opp)>>)]
                      ELSE [cy EXCEPT !.pc = "submit", !.existing = existingOrders,
                                      !.queried = "answered",
                                      !.calls = Append(@, <<"POST", 0>>)]]
           \/ cycles' = [cycles EXCEPT ![c] =
                    [cy EXCEPT !.pc = "delay", !.result = "failed",
                               !.queried = "failed",
                               !.returned = TradeFailed(sig, "open orders query failed")]]
    /\ last' = CycleStep
    /\ UNCHANGED <<traderVars, genVars, timers, orders, startsSinceStop, stopReturned>>

\* after a cancel request is answered: the next request, or the settle delay
AfterCancel(cy) ==
    LET rest == Tail(cy.opp) IN
    IF rest = << >> THEN [cy EXCEPT !.opp = rest, !.pc = "settle"]
                    ELSE [cy EXCEPT !.opp = rest, !.cancelReq = @ \cup {Head(rest)},
                                    !.calls = Append(@, <<"DELETE", Head(rest)>>)]

\* the cancellation loop without its try and catch: a failed cancel request
\* ends the trade in the outer catch
OrderCancelAnsweredUncaught(c) ==
    /\ cycles[c].pc = "cancel"
    /\ LET cy == cycles[c]
           o  == Head(cy.opp)
       IN  \/ /\ orders[o].status = "open"
              /\ orders' = [orders EXCEPT ![o].status = "canceled"]
              /\ cycles' = [cycles EXCEPT ![c] =
                              AfterCancel([cy EXCEPT !.cancelOk = @ \cup {o}])]
              /\ last' = CycleStep
           \/ /\ UNCHANGED orders
              /\ cycles' = [cycles EXCEPT ![c] =
                              [cy EXCEPT !.pc = "delay", !.result = "failed",
                                         !.returned = TradeFailed(cy.exec[cy.j],
                                                        "cancel request failed")]]
              /\ last' = CycleStep
    /\ UNCHANGED <<traderVars, genVars, timers, startsSinceStop, stopReturned>>

\* executeTradeFromSignal: DELETE /v2/orders/:id is answered, or fails (the
\* failure is caught and logged, lines 127-129)
OrderCancelAnswered(c) ==
    /\ cycles[c].pc = "cancel"
    /\ LET cy == cycles[c]
           o  == Head(cy.opp)
       IN  \/ /\ orders[o].status = "open"
              /\ orders' = [orders EXCEPT ![o].status = "canceled"]
              /\ cycles' = [cycles EXCEPT ![c] =
                              AfterCancel([cy EXCEPT !.cancelOk = @ \cup {o}])]
              /\ last' = CycleStep
           \/ /\ UNCHANGED orders
              /\ cycles' = [cycles EXCEPT ![c] = AfterCancel(cy)]
              /\ last' = CycleStep
    /\ UNCHANGED <<traderVars, genVars, timers, startsSinceStop, stopReturned>>

\* the loop not awaiting executeTradeFromSignal: as the order is sent the trade
\* of the next executable signal is entered
SettleDelayOverUnawaited(c) ==
    /\ cycles[c].pc = "settle"
    /\ cycles' = [cycles EXCEPT ![c] =
                    IF @.j < Len(@.exec)
                      THEN BeginTrade(@, @.j + 1)
                      ELSE [@ EXCEPT !.pc = "submit",
                                     !.calls = Append(@, <<"POST", 0>>)]]
    /\ last' = CycleStep
    /\ UNCHANGED <<traderVars, genVars, timers, orders, startsSinceStop, stopReturned>>

\* executeTradeFromSignal: the 1 s wait after the cancellations is over, the
\* order is sent (lines 132-145)
SettleDelayOver(c) ==
    /\ cycles[c].pc = "settle"
    /\ cycles' = [cycles EXCEPT ![c] =
                    [@ EXCEPT !.pc = "submit", !.calls = Append(@, <<"POST", 0>>)]]
    /\ last' = CycleStep
    /\ UNCHANGED <<traderVars, genVars, timers, orders, startsSinceStop, stopReturned>>

\* orderData with side: signal.signal
OrderDataSignalSide(signal, positionSize) ==
    [symbol        |-> signal.symbol,
     qty           |-> positionSize,
     side          |-> signal.signal,
     type          |-> "market",
     time_in_force |-> "day",
     tag           |-> "automation_",
     status        |-> "open"]

\* orderData, lines 135-142
OrderData(signal, positionSize) ==
    [symbol        |-> signal.symbol,
     qty           |-> positionSize,
     side          |-> toLowerCase(signal.signal),
     type          |-> "market",
     time_in_force |-> "day",
     tag           |-> "automation_",
     status        |-> "open"]

\* a failed POST /v2/orders sent once more before the trade fails
OrderSubmitAnsweredRetrying(c) ==
    /\ cycles[c].pc = "submit"
    /\ LET cy == cycles[c] IN
           \/ /\ Len(orders) < offered.orders
              /\ orders' = Append(orders, OrderData(cy.exec[cy.j], cy.positionSize))
              /\ cycles' = [cycles EXCEPT ![c] =
                              [cy EXCEPT !.pc = "delay", !.result = "success",
                                         !.submitted = Append(@, cy.exec[cy.j].symbol),
                                         !.returned = TradeSucceeded(cy.exec[cy.j],
                                                        Len(orders) + 1, cy.positionSize)]]
           \/ /\ UNCHANGED orders
              /\ cycles' = [cycles EXCEPT ![c] =
                    IF cy.calls[Len(cy.calls) - 1] # <<"POST", 0>>
                      THEN [cy EXCEPT !.calls = Append(@, <<"POST", 0>>)]
                      ELSE [cy EXCEPT !.pc = "delay", !.result = "failed",
                                      !.returned = TradeFailed(cy.exec[cy.j],
                                                     "order submission failed")]]
    /\ last' = CycleStep
    /\ UNCHANGED <<traderVars, genVars, timers, startsSinceStop, stopReturned>>

\* executeTradeFromSignal: POST /v2/orders is answered, or fails; then the
\* inter-trade delay of checkAndExecuteTrades starts
OrderSubmitAnswered(c) ==
    /\ cycles[c].pc = "submit"
    /\ LET cy == cycles[c] IN
           \/ /\ Len(orders) < offered.orders
              /\ orders' = Append(orders, OrderData(cy.exec[cy.j], cy.positionSize))
              /\ cycles' = [cycles EXCEPT ![c] =
                              [cy EXCEPT !.pc = "delay", !.result = "success",
                                         !.submitted = Append(@, cy.exec[cy.j].symbol),
                                         !.returned = TradeSucceeded(cy.exec[cy.j],
                                                        Len(orders) + 1, cy.positionSize)]]
           \/ /\ UNCHANGED orders
              /\ cycles' = [cycles EXCEPT ![c] =
                              [cy EXCEPT !.pc = "delay", !.result = "failed",
                                         !.returned = TradeFailed(cy.exec[cy.j],
                                                        "order submission failed")]]
    /\ last' = CycleStep
    /\ UNCHANGED <<traderVars, genVars, timers, startsSinceStop, stopReturned>>

\* checkAndExecuteTrades: the 1 s delay after a trade is over (line 86)
TradeDelayOver(c) ==
    /\ cycles[c].pc = "delay"
    /\ Continue(c, AfterTrade(cycles[c]))
    /\ last' = CycleStep
    /\ UNCHANGED <<isRunning, watchedSymbols, maxPositionSize, minConfidence, genVars,
                   orders, startsSinceStop, stopReturned>>

-----------------------------------------------------------------------------
(* The gateway's other clients: routes/trading.js *)

\* POST /trade places an order (lines 246-256)
ManualOrderPlaced(symbol, side) ==
    /\ Len(orders) < offered.orders
    /\ orders' = Append(orders, [symbol |-> symbol, qty |-> 1, side |-> side,
                                 type |-> "market", time_in_force |-> "day",
                                 tag |-> "manual_", status |-> "open"])
    /\ last' = GatewayStep
    /\ UNCHANGED <<traderVars, genVars, timers, cycles, startsSinceStop, stopReturned>>

-----------------------------------------------------------------------------
(* The generator's callers: routes/automation.js, routes/trading.js *)

\* updateRSIThresholds(oversold, overbought)
updateRSIThresholds(oversold, overbought) ==
    /\ rsiOversold' = oversold
    /\ rsiOverbought' = overbought
    /\ last' = Step("updateRSIThresholds", <<oversold, overbought>>, isRunning)
    /\ UNCHANGED <<traderVars, generated, sized, offered, timers, cycles, orders,
                   startsSinceStop, stopReturned>>

\* GET /:symbol of routes/trading.js: one generateRSISignal(symbol) call
SignalGenerated(symbol, draw) ==
    /\ generated' = generateSignal(symbol, draw)
    /\ last' = Step("generateRSISignal", <<symbol, draw>>, isRunning)
    /\ UNCHANGED <<traderVars, rsiOversold, rsiOverbought, sized, offered, timers,
                   cycles, orders, startsSinceStop, stopReturned>>

\* One generateRSISignal(symbol) call at Date.now() = now, in minutes, on the
\* mock indicators it derives itself; the step records the time of the call.
MockSignalGenerated(symbol, now, random20, random50) ==
    LET draw == mockDraw(symbol, now, random20, random50) IN
    /\ generated' = generateSignal(symbol, draw)
    /\ last' = Step("generateRSISignal", <<symbol, draw, now>>, isRunning)
    /\ UNCHANGED <<traderVars, rsiOversold, rsiOverbought, sized, offered, timers,
                   cycles, orders, startsSinceStop, stopReturned>>

\* One getPositionSize(confidence, maxPosition) call; the call before it is kept
PositionSized(confidence, maxPosition) ==
    LET call == [confidence  |-> confidence,
                 maxPosition |-> maxPosition,
                 size        |-> getPositionSize(confidence, maxPosition)]
    IN  /\ sized' = IF sized = << >> THEN <<call>> ELSE <<sized[Len(sized)], call>>
        /\ last' = Step("getPositionSize", <<confidence, maxPosition>>, isRunning)
        /\ UNCHANGED <<traderVars, rsiOversold, rsiOverbought, generated, offered,
                       timers, cycles, orders, startsSinceStop, stopReturned>>

-----------------------------------------------------------------------------

Constructed ==
    /\ isRunning = FALSE
    /\ tradingInterval = NullTimer
    /\ watchedSymbols = DefaultWatchlist
    /\ maxPositionSize = 10
    /\ minConfidence = Rat(7, 10)
    /\ rsiOversold = 30
    /\ rsiOverbought = 70
    /\ generated = NotGenerated
    /\ sized = << >>
    /\ timers = {}
    /\ cycles = [c \in Slots |-> NoCycle]
    /\ orders = << >>
    /\ startsSinceStop = 0
    /\ stopReturned = FALSE
    /\ last = Step("init", << >>, FALSE)

Init == Constructed /\ offered = SchedulingInputs

InitParams == Constructed /\ offered = ParameterInputs

InitTrade == Constructed /\ offered = TradeInputs

InitGen == Constructed /\ offered = GeneratorInputs

InitSize == Constructed /\ offered = SizeInputs

InitInterval == Constructed /\ offered = IntervalInputs

InitFilter == Constructed /\ offered = FilterInputs

InitStop == Constructed /\ offered = StopInputs

InitTick == Constructed /\ offered = TickInputs

InitStart == Constructed /\ offered = StartInputs

InitBusy == Constructed /\ offered = BusyInputs

InitOrder == Constructed /\ offered = OrderInputs

InitFair == Constructed /\ offered = FairInputs

InitDup == Constructed /\ offered = DupInputs

InitMock == Constructed /\ offered = MockInputs

\* the operations of the trader and the batch evaluation of a cycle
Next ==
    \/ \E symbols \in offered.symbols, intervalMinutes \in offered.intervals :
         startTrading(symbols, intervalMinutes)
    \/ stopTrading
    \/ \E params \in offered.params : updateParameters(params)
    \/ TimerTick
    \/ ManualCheck
    \/ \E c \in Slots : SignalDelayOver(c)

\* the steps of executeTradeFromSignal
TradeSteps ==
    \/ \E c \in Slots : OrdersQueried(c)
    \/ \E c \in Slots : OrderCancelAnswered(c)
    \/ \E c \in Slots : SettleDelayOver(c)
    \/ \E c \in Slots : OrderSubmitAnswered(c)
    \/ \E c \in Slots : TradeDelayOver(c)

\* every cycle is the initial cycle of a startTrading call
NextParams ==
    \/ \E symbols \in offered.symbols, intervalMinutes \in offered.intervals :
         startTrading(symbols, intervalMinutes)
    \/ stopTrading
    \/ \E params \in offered.params : updateParameters(params)
    \/ \E c \in Slots : SignalDelayOver(c)
    \/ TradeSteps

\* every cycle is begun by POST /check
NextTrade ==
    \/ ManualCheck
    \/ \E c \in Slots : SignalDelayOver(c)
    \/ TradeSteps
    \/ \E m \in offered.manual : ManualOrderPlaced(m[1], m[2])

\* cycles begun by POST /check and parameter updates: every order is a sell
\* order of the loop and no order is ever cancelled
NextFilter ==
    \/ ManualCheck
    \/ \E params \in offered.params : updateParameters(params)
    \/ \E c \in Slots : SignalDelayOver(c)
    \/ \E c \in Slots : OrdersQueried(c)
    \/ \E c \in Slots : OrderSubmitAnswered(c)
    \/ \E c \in Slots : TradeDelayOver(c)

\* starts, updates of the watchlist and manual checks, and the steps of their
\* cycles: no order is ever cancelled
NextDup ==
    \/ \E symbols \in offered.symbols, intervalMinutes \in offered.intervals :
         startTrading(symbols, intervalMinutes)
    \/ \E params \in offered.params : updateParameters(params)
    \/ ManualCheck
    \/ \E c \in Slots : SignalDelayOver(c)
    \/ \E c \in Slots : OrdersQueried(c)
    \/ \E c \in Slots : OrderSubmitAnswered(c)
    \/ \E c \in Slots : TradeDelayOver(c)

\* cycles begun by POST /check under the default parameters: no order is
\* ever cancelled
NextMock ==
    \/ ManualCheck
    \/ \E c \in Slots : SignalDelayOver(c)
    \/ \E c \in Slots : OrdersQueried(c)
    \/ \E c \in Slots : OrderSubmitAnswered(c)
    \/ \E c \in Slots : TradeDelayOver(c)

\* starts, stops and manual checks, the steps of their cycles and orders
\* placed by hand
NextFair ==
    \/ \E symbols \in offered.symbols, intervalMinutes \in offered.intervals :
         startTrading(symbols, intervalMinutes)
    \/ stopTrading
    \/ ManualCheck
    \/ \E c \in Slots : SignalDelayOver(c)
    \/ TradeSteps
    \/ \E m \in offered.manual : ManualOrderPlaced(m[1], m[2])

\* cycles begun by POST /check and updates of maxPositionSize: no order is
\* ever cancelled
NextOrder ==
    \/ ManualCheck
    \/ \E params \in offered.params : updateParameters(params)
    \/ \E c \in Slots : SignalDelayOver(c)
    \/ \E c \in Slots : OrdersQueried(c)
    \/ \E c \in Slots : OrderSubmitAnswered(c)
    \/ \E c \in Slots : TradeDelayOver(c)

\* the loop started and stopped: every cycle is the initial cycle of a
\* startTrading call
NextStop ==
    \/ \E symbols \in offered.symbols, intervalMinutes \in offered.intervals :
         startTrading(symbols, intervalMinutes)
    \/ stopTrading
    \/ \E c \in Slots : SignalDelayOver(c)
    \/ TradeSteps
    \/ \E m \in offered.manual : ManualOrderPlaced(m[1], m[2])

\* the loop started and ticking, never stopped
NextTick ==
    \/ \E symbols \in offered.symbols, intervalMinutes \in offered.intervals :
         startTrading(symbols, intervalMinutes)
    \/ TimerTick
    \/ \E c \in Slots : SignalDelayOver(c)
    \/ TradeSteps
    \/ \E m \in offered.manual : ManualOrderPlaced(m[1], m[2])

\* starting, the timer and POST /check: no order is ever placed or cancelled
NextBusy ==
    \/ \E symbols \in offered.symbols, intervalMinutes \in offered.intervals :
         startTrading(symbols, intervalMinutes)
    \/ TimerTick
    \/ ManualCheck
    \/ \E c \in Slots : SignalDelayOver(c)
    \/ \E c \in Slots : OrdersQueried(c)
    \/ \E c \in Slots : OrderSubmitAnswered(c)
    \/ \E c \in Slots : TradeDelayOver(c)

\* the requests to start and stop and for the status
NextStart ==
    \/ \E body \in offered.bodies : PostStart(body)
    \/ stopTrading
    \/ StatusRead
    \/ \E c \in Slots : SignalDelayOver(c)

\* starting and stopping
NextInterval ==
    \/ \E symbols \in offered.symbols, intervalMinutes \in offered.intervals :
         startTrading(symbols, intervalMinutes)
    \/ stopTrading
    \/ \E c \in Slots : SignalDelayOver(c)

\* the generator alone
NextGen ==
    \/ \E t \in offered.thresholds : updateRSIThresholds(t[1], t[2])
    \/ \E symbols \in offered.symbols, draw \in offered.signals :
         SignalGenerated(ValueOf(symbols)[1], draw)
    \/ \E symbols \in offered.symbols, now \in offered.times,
          random20 \in offered.randoms, random50 \in offered.randoms :
         MockSignalGenerated(ValueOf(symbols)[1], now, random20, random50)

NextSize ==
    \E confidence \in offered.confidences, maxPosition \in offered.positions :
        PositionSized(confidence, maxPosition)

\* signals are never executable: no trade is ever executed
Spec == Init /\ [][Next]_vars

SpecTrade == InitTrade /\ [][NextTrade]_vars

SpecParams == InitParams /\ [][NextParams]_vars

SpecGen == InitGen /\ [][NextGen]_vars

SpecSize == InitSize /\ [][NextSize]_vars

SpecInterval == InitInterval /\ [][NextInterval]_vars

SpecFilter == InitFilter /\ [][NextFilter]_vars

SpecStop == InitStop /\ [][NextStop]_vars

SpecTick == InitTick /\ [][NextTick]_vars

SpecStart == InitStart /\ [][NextStart]_vars

SpecBusy == InitBusy /\ [][NextBusy]_vars

SpecOrder == InitOrder /\ [][NextOrder]_vars

\* Every delay of a cycle in flight ends and every gateway call of it is
\* answered or fails: the timers of Node.js fire, and the gateway's client
\* rejects a call after its timeout of 10 s (config/alpaca.js, line 19).
CycleFairness ==
    \A c \in Slots :
        /\ WF_vars(SignalDelayOver(c))
        /\ WF_vars(OrdersQueried(c))
        /\ WF_vars(OrderCancelAnswered(c))
        /\ WF_vars(SettleDelayOver(c))
        /\ WF_vars(OrderSubmitAnswered(c))
        /\ WF_vars(TradeDelayOver(c))

SpecDup == InitDup /\ [][NextDup]_vars

SpecMock == InitMock /\ [][NextMock]_vars

SpecFair == InitFair /\ [][NextFair]_vars /\ CycleFairness

-----------------------------------------------------------------------------
(* The scheduling: Spec *)

\* C1: in every reachable state at most one recurring timer is armed in the
\* process.
C1_AtMostOneTimer == Cardinality(timers) <= 1

\* C2: once stopTrading has returned, no timer-driven cycle begins until
\* startTrading is called again.
C2_NoTickAfterStop == ~(last.op = "tick" /\ stopReturned)

\* C3: getStatus right after a stopTrading call reports isRunning = false.
C3_StatusAfterStop == last.op = "stop" => getStatus.isRunning = FALSE

\* stopTrading was called while the loop was running and a cycle was in flight
C3_Witness == last.op = "stop" /\ last.was /\ InFlight # {}

\* C4: after two startTrading calls with no stopTrading call between them,
\* once no startTrading call is in flight any more, exactly one timer is armed.
C4_TwoStartsOneTimer ==
    (startsSinceStop >= 2 /\ StartsInFlight = {}) => Cardinality(timers) = 1

\* C9: startTrading while isRunning changes neither the watchlist, nor the
\* cycles in flight, nor the timers, nor isRunning; stopTrading while not
\* isRunning changes no state.
C9_NoOpWhenAlreadyThere ==
    [][ /\ (last'.op = "start" /\ isRunning)
            => UNCHANGED <<traderVars, timers, cycles, orders, genVars>>
        /\ (last'.op = "stop" /\ ~isRunning)
            => UNCHANGED <<traderVars, timers, cycles, orders, genVars>> ]_vars

\* startTrading was called while running, with symbols that are not the watchlist
C9_Witness ==
    /\ last.op = "start" /\ last.was
    /\ IsGiven(last.arg[1]) /\ ValueOf(last.arg[1]) # watchedSymbols

\* C10: no timer-driven cycle begins while the initial cycle of a startTrading
\* call is still in flight.
C10_NoTickDuringInitialCycle == ~(last.op = "tick" /\ StartsInFlight # {})

\* C8: updateParameters leaves every field that is not provided as it was and
\* never changes isRunning, the timer handle or the timers.
C8_UpdateFrame ==
    [][ last'.op = "updateParameters" =>
          /\ ~IsGiven(last'.arg.symbols) => watchedSymbols' = watchedSymbols
          /\ ~IsGiven(last'.arg.maxPositionSize) => maxPositionSize' = maxPositionSize
          /\ ~IsGiven(last'.arg.minConfidence) => minConfidence' = minConfidence
          /\ UNCHANGED <<isRunning, tradingInterval, timers>> ]_vars

\* updateParameters was called with nothing but symbols while the timer was
\* armed and the two numbers were not the defaults
C8_Witness ==
    /\ last.op = "updateParameters"
    /\ IsGiven(last.arg.symbols)
    /\ ~IsGiven(last.arg.maxPositionSize) /\ ~IsGiven(last.arg.minConfidence)
    /\ isRunning /\ tradingInterval # NullTimer
    /\ maxPositionSize # 10 /\ minConfidence # Rat(7, 10)

-----------------------------------------------------------------------------
(* The trade execution: SpecTrade *)

Trades == {c \in Slots : cycles[c].pc \in {"query", "cancel", "settle", "submit", "delay"}}

\* the orders of the query's answer on the other side than the trade's signal
OpposingAnswered(cy) ==
    {o \in cy.existing :
        \/ cy.exec[cy.j].signal = "BUY"  /\ orders[o].side = "sell"
        \/ cy.exec[cy.j].signal = "SELL" /\ orders[o].side = "buy"}

\* C5 as claimed: when executeTradeFromSignal has submitted its order, no
\* opposite side order that the open-orders query returned is still open.
C5_OpposingClosedAtSubmit ==
    \A c \in Trades :
        cycles[c].result = "success" =>
            \A o \in OpposingAnswered(cycles[c]) : orders[o].status # "open"

\* C5 as amended: when executeTradeFromSignal has submitted its order, a cancel
\* request was sent before for every opposite side order that the open-orders
\* query returned, and those whose request succeeded are not open.
C5_OpposingCancelRequestedBeforeSubmit ==
    \A c \in Trades :
        cycles[c].result = "success" =>
            /\ OpposingAnswered(cycles[c]) \subseteq cycles[c].cancelReq
            /\ \A o \in cycles[c].cancelOk : orders[o].status # "open"

\* an order was submitted after an opposite side order was cancelled
C5_Witness ==
    \E c \in Trades :
        /\ cycles[c].result = "success"
        /\ OpposingAnswered(cycles[c]) # {}
        /\ cycles[c].cancelOk # {}

-----------------------------------------------------------------------------
(* The parameters: SpecParams *)

ExecutableAt(signals, minConf) ==
    SelectSeq(signals, LAMBDA s : /\ s.shouldExecute
                                  /\ RGeq(s.confidence, minConf)
                                  /\ s.signal # "HOLD")

\* C6: a cycle in flight filters with the minConfidence and sizes its orders
\* with the maxPositionSize that were in force when it began.
C6_CycleUsesParametersOfItsBegin ==
    \A c \in Trades :
        LET cy == cycles[c] IN
        /\ cy.exec = ExecutableAt(cy.signals, cy.minConfAtBegin)
        /\ cy.positionSize = getPositionSize(cy.exec[cy.j].confidence, cy.maxPosAtBegin)

\* C7: getStatus right after updateParameters reports every provided field's
\* value.
C7_ProvidedFieldsReported ==
    last.op = "updateParameters" =>
        /\ IsGiven(last.arg.symbols)
             => getStatus.watchedSymbols = ValueOf(last.arg.symbols)
        /\ IsGiven(last.arg.maxPositionSize)
             => getStatus.maxPositionSize = ValueOf(last.arg.maxPositionSize)
        /\ IsGiven(last.arg.minConfidence)
             => getStatus.minConfidence = ValueOf(last.arg.minConfidence)

-----------------------------------------------------------------------------
(* The timer's period: SpecInterval *)

\* intervalMinutes clamped to the range [1, 1440]
ClampedInterval(intervalMinutes) ==
    IF intervalMinutes < 1 THEN 1
    ELSE IF intervalMinutes > 1440 THEN 1440
    ELSE intervalMinutes

\* C11: the timer that a startTrading(symbols, intervalMinutes) call arms has
\* the period of intervalMinutes clamped to [1, 1440] minutes.
C11_PeriodClamped ==
    [][ /\ \A c \in Slots :
              (cycles[c].pc # "idle" /\ cycles[c].origin = "start"
                  /\ cycles'[c].pc = "idle") =>
                  \A t \in timers' \ timers :
                      t.period = ClampedInterval(cycles[c].interval) * 60 * 1000
        /\ (last'.op = "start" /\ ~isRunning) =>
              \A t \in timers' \ timers :
                  t.period = ClampedInterval(last'.arg[2]) * 60 * 1000 ]_vars

-----------------------------------------------------------------------------
(* The signal generator: SpecGen *)

\* C14: every signal that generateRSISignal returns has shouldExecute exactly
\* when its reported confidence is at least the generator's minConfidence.
C14_ShouldExecuteIffConfident ==
    generated.shouldExecute <=> RGeq(generated.confidence, genMinConfidence)

\* a BUY whose confidence was 1 before the confirmation added to it, reported
\* as 1
C14_Witness ==
    /\ last.op = "generateRSISignal" /\ ~Throws(last.arg[2])
    /\ generated.signal = "BUY"
    /\ calculateBuyConfidence(last.arg[2][1]) = One
    /\ generated.reason = <<"RSI oversold", "Price above SMA20">>
    /\ generated.confidence = One /\ generated.shouldExecute

\* C19: a generateRSISignal call in which an exception is thrown returns HOLD
\* with confidence 0, shouldExecute false and the exception's message in reason.
C19_FailureIsHold ==
    (last.op = "generateRSISignal" /\ Throws(last.arg[2])) =>
        /\ generated.symbol = last.arg[1]
        /\ generated.signal = "HOLD"
        /\ generated.confidence = Zero
        /\ generated.shouldExecute = FALSE
        /\ generated.reason = <<"Error: ", last.arg[2][1]>>

\* a call threw, after the thresholds had been updated
C19_Witness ==
    /\ last.op = "generateRSISignal" /\ Throws(last.arg[2])
    /\ generated.signal = "HOLD"
    /\ rsiOversold # 30

\* the mock promotion does not fire for this draw
NoMockPromotion(draw) == ~(draw[1].isMockData /\ RLt(Rat(draw[2], 100), Rat(25, 100)))

\* C20 as claimed: without the mock promotion, rsi < rsiOversold yields BUY,
\* rsi > rsiOverbought yields SELL, and HOLD is returned exactly when neither
\* comparison holds.
C20_ThresholdDecision ==
    (last.op = "generateRSISignal" /\ ~Throws(last.arg[2])
        /\ NoMockPromotion(last.arg[2])) =>
        LET rsi == last.arg[2][1].rsi IN
        /\ rsi < rsiOversold => generated.signal = "BUY"
        /\ rsi > rsiOverbought => generated.signal = "SELL"
        /\ generated.signal = "HOLD" <=> (~(rsi < rsiOversold) /\ ~(rsi > rsiOverbought))

\* C20 as amended: without the mock promotion, rsi < rsiOversold yields BUY,
\* rsi > rsiOverbought without rsi < rsiOversold yields SELL, and HOLD is
\* returned exactly when neither comparison holds.
C20_ThresholdDecisionBuyFirst ==
    (last.op = "generateRSISignal" /\ ~Throws(last.arg[2])
        /\ NoMockPromotion(last.arg[2])) =>
        LET rsi == last.arg[2][1].rsi IN
        /\ rsi < rsiOversold => generated.signal = "BUY"
        /\ (rsi > rsiOverbought /\ ~(rsi < rsiOversold)) => generated.signal = "SELL"
        /\ generated.signal = "HOLD" <=> (~(rsi < rsiOversold) /\ ~(rsi > rsiOverbought))

\* an RSI below rsiOversold and above rsiOverbought at once
C20_Witness ==
    /\ last.op = "generateRSISignal" /\ ~Throws(last.arg[2])
    /\ NoMockPromotion(last.arg[2])
    /\ last.arg[2][1].rsi < rsiOversold /\ last.arg[2][1].rsi > rsiOverbought
    /\ generated.signal = "BUY"

\* C21: every signal that generateRSISignal returns reports a confidence from 0
\* to 1, whatever the RSI, the prices, the averages and the thresholds.
C21_ConfidenceInUnitInterval ==
    last.op = "generateRSISignal" =>
        /\ RGeq(generated.confidence, Zero)
        /\ RGeq(One, generated.confidence)

\* a SELL whose confidence was above 1 before it was reported, under thresholds
\* that were updated
C21_Witness ==
    /\ last.op = "generateRSISignal" /\ ~Throws(last.arg[2])
    /\ rsiOverbought # 70
    /\ generated.signal = "SELL"
    /\ RLt(One, RAdd(calculateSellConfidence(last.arg[2][1]), Rat(1, 10)))
    /\ generated.reason = <<"RSI overbought", "Price below SMA20">>
    /\ generated.confidence = One

\* 0.6 + 0.3 * rsiStrength, + 0.1 when the price confirms against SMA20, + 0.1
\* when SMA20 confirms against SMA50, each once, and at most 1
ConfirmedOnce(signal, indicators) ==
    LET rsiStrength ==
            IF signal = "BUY" THEN Rat(rsiOversold - indicators.rsi, rsiOversold)
                              ELSE Rat(indicators.rsi - rsiOverbought, 100 - rsiOverbought)
        priceConfirms ==
            IF signal = "BUY" THEN indicators.currentPrice > indicators.sma20
                              ELSE indicators.currentPrice < indicators.sma20
        averageConfirms ==
            IF signal = "BUY" THEN indicators.sma20 > indicators.sma50
                              ELSE indicators.sma20 < indicators.sma50
        base == RAdd(Rat(6, 10), RMul(rsiStrength, Rat(3, 10)))
        withPrice == IF priceConfirms THEN RAdd(base, Rat(1, 10)) ELSE base
        withAverage == IF averageConfirms THEN RAdd(withPrice, Rat(1, 10)) ELSE withPrice
    IN  RMin(withAverage, One)

\* C22: a BUY or SELL decided by the thresholds reports the confidence
\* min(1, 0.6 + 0.3 * rsiStrength + 0.1 + 0.1) with each confirmation counted
\* once; rsi 25, sma20 110, sma50 100, price 112 under 30/70 is a BUY with it.
C22_ConfidenceFormula ==
    (last.op = "generateRSISignal" /\ ~Throws(last.arg[2])
        /\ generated.reason[1] \in {"RSI oversold", "RSI overbought"}) =>
        /\ generated.confidence = ConfirmedOnce(generated.signal, last.arg[2][1])
        /\ (last.arg[2] = ThresholdBuy /\ rsiOversold = 30 /\ rsiOverbought = 70) =>
               /\ generated.signal = "BUY"
               /\ generated.confidence = Rat(85, 100)

\* the two calls were made for the same symbol in the same 5-minute bucket of
\* the indicators and the same 3-minute bucket of the mock promotion
SameBucket(call1, call2) ==
    /\ call1[1] = call2[1]
    /\ call1[3] \div 5 = call2[3] \div 5
    /\ call1[3] \div 3 = call2[3] \div 3

\* C23: two generateRSISignal calls for the same symbol in the same time bucket
\* see the same rsi, sma20, sma50 and currentPrice and return the same signal,
\* confidence and shouldExecute.
C23_SameBucketSameSignal ==
    [][ (/\ last.op = "generateRSISignal" /\ Len(last.arg) = 3
         /\ last'.op = "generateRSISignal" /\ Len(last'.arg) = 3
         /\ SameBucket(last.arg, last'.arg)) =>
            /\ last'.arg[2][1] = last.arg[2][1]
            /\ generated'.signal = generated.signal
            /\ generated'.confidence = generated.confidence
            /\ generated'.shouldExecute = generated.shouldExecute ]_vars

-----------------------------------------------------------------------------
(* getPositionSize: SpecSize *)

\* max(1, floor(confidence * maxPosition)): the floor is the integer n with
\* n <= confidence * maxPosition < n + 1
MaxOfOneAndFloor(confidence, maxPosition) ==
    LET n == CHOOSE n \in 0..maxPosition :
                 /\ n * confidence[2] <= confidence[1] * maxPosition
                 /\ confidence[1] * maxPosition < (n + 1) * confidence[2]
    IN  IF n > 1 THEN n ELSE 1

\* C24: getPositionSize(confidence, maxPosition) is
\* max(1, floor(confidence * maxPosition)) for a confidence from 0 to 1 and an
\* integer maxPosition above 0; getPositionSize(0.9, 5) is 4.
C24_PositionSizeFormula ==
    \A i \in DOMAIN sized :
        /\ sized[i].size = MaxOfOneAndFloor(sized[i].confidence, sized[i].maxPosition)
        /\ (sized[i].confidence = Rat(9, 10) /\ sized[i].maxPosition = 5) =>
               sized[i].size = 4

\* getPositionSize(0.9, 5) returned 4
C24_Witness ==
    /\ last.op = "getPositionSize" /\ last.arg = <<Rat(9, 10), 5>>
    /\ sized[Len(sized)].size = 4

\* C25: for one maxPosition, getPositionSize does not decrease when the
\* confidence increases, and what it returns is an integer of at least 1.
C25_PositionSizeMonotone ==
    /\ \A i \in DOMAIN sized : sized[i].size \in Nat /\ sized[i].size >= 1
    /\ \A i, j \in DOMAIN sized :
           (/\ sized[i].maxPosition = sized[j].maxPosition
            /\ RGeq(sized[j].confidence, sized[i].confidence)) =>
               sized[i].size <= sized[j].size

\* two calls with one maxPosition: confidence 0 returned 1, the larger
\* confidence returned more
C25_Witness ==
    /\ Len(sized) = 2
    /\ sized[1].maxPosition = sized[2].maxPosition
    /\ sized[1].confidence = Zero /\ sized[1].size = 1
    /\ RLt(sized[1].confidence, sized[2].confidence)
    /\ sized[1].size < sized[2].size

-----------------------------------------------------------------------------
(* A cycle and stopTrading: SpecStop *)

\* the batch of the cycle is complete
BatchComplete(cy) == cy.pc = "gen" /\ Len(cy.signals) = Len(cy.symbols)

\* C12: while isRunning is false a cycle in flight goes on as it would
\* otherwise: after its batch it enters the trade of its first executable
\* signal, after a trade that of the next one, and it ends only after the trade
\* of its last executable signal or when no signal of its batch is executable.
C12_StopDoesNotInterrupt ==
    [][ \A c \in Slots :
          (~isRunning /\ cycles[c].pc # "idle" /\ cycles'[c] # cycles[c]) =>
            LET cy == cycles[c] IN
            /\ (BatchComplete(cy) /\ ExecutableSignals(cy.signals) # << >>) =>
                  /\ cycles'[c].pc = "query" /\ cycles'[c].j = 1
                  /\ cycles'[c].exec = ExecutableSignals(cy.signals)
            /\ (cy.pc = "delay" /\ cy.j < Len(cy.exec)) =>
                  /\ cycles'[c].pc = "query" /\ cycles'[c].j = cy.j + 1
                  /\ cycles'[c].exec = cy.exec
            /\ cycles'[c].pc = "idle" =>
                  \/ cy.pc = "delay" /\ cy.j = Len(cy.exec)
                  \/ BatchComplete(cy) /\ ExecutableSignals(cy.signals) = << >> ]_vars

\* stopTrading has returned; the trade of the second executable signal was
\* entered after that, has cancelled an opposite side order and has sent its
\* order
C12_Witness ==
    /\ stopReturned /\ ~isRunning
    /\ \E c \in Slots :
          /\ cycles[c].pc = "submit" /\ cycles[c].origin = "start"
          /\ cycles[c].j = 2 /\ ~cycles[c].runningAtTrade
          /\ cycles[c].cancelOk # {}

-----------------------------------------------------------------------------
(* The timer's cycles and failures: SpecTick *)

\* C16: no step of a cycle, whatever failed in it, disarms a timer or changes
\* isRunning, and a step of a timer's cycle leaves the timers and the timer
\* handle as they are; a cycle ends only after its last trade or with a batch
\* without executable signals.
C16_FailedCycleLeavesTimer ==
    [][ last'.op = "cycle" =>
          /\ timers \subseteq timers'
          /\ isRunning' = isRunning
          /\ \A c \in Slots :
                (cycles[c].pc # "idle" /\ cycles'[c] # cycles[c]) =>
                  /\ cycles[c].origin = "timer" => UNCHANGED <<timers, tradingInterval>>
                  /\ cycles'[c].pc = "idle" =>
                        \/ cycles[c].pc = "delay" /\ cycles[c].j = Len(cycles[c].exec)
                        \/ BatchComplete(cycles[c])
                              /\ ExecutableSignals(cycles[c].signals) = << >> ]_vars

\* a timer's cycle with a failed signal generation in its batch whose last
\* trade has failed, and the timer is armed
C16_Witness ==
    \E c \in Slots :
        /\ cycles[c].pc = "delay" /\ cycles[c].origin = "timer"
        /\ cycles[c].j = Len(cycles[c].exec) /\ ~cycles[c].returned.success
        /\ \E i \in 1..Len(cycles[c].signals) :
                cycles[c].signals[i].reason = <<"Error: ", SplitThrows[1]>>
        /\ tradingInterval # NullTimer
        /\ \E t \in timers : t.id = tradingInterval

-----------------------------------------------------------------------------
(* What a trade returns and what follows it: SpecTrade *)

\* C17: a trade whose open-orders query or whose order submission is answered
\* returns: when an order was placed, success = true, the id of that order, the
\* signal and the position size; when none was placed, success = false, the
\* error message and the signal.
C17_TradeReturnsRecord ==
    [][ \A c \in Slots :
          (cycles[c].pc \in {"query", "submit"} /\ cycles'[c].pc = "delay") =>
            LET cy == cycles[c]
                r  == cycles'[c].returned
            IN  IF orders' # orders
                  THEN /\ r.success = TRUE
                       /\ r.orderId = Len(orders')
                       /\ orders'[r.orderId].symbol = cy.exec[cy.j].symbol
                       /\ orders'[r.orderId].tag = "automation_"
                       /\ r.signal = cy.exec[cy.j]
                       /\ r.positionSize = cy.positionSize
                       /\ DOMAIN r = {"success", "orderId", "signal", "positionSize"}
                  ELSE /\ r.success = FALSE
                       /\ r.error = IF cy.pc = "query" THEN "open orders query failed"
                                                       ELSE "order submission failed"
                       /\ r.signal = cy.exec[cy.j]
                       /\ DOMAIN r = {"success", "error", "signal"} ]_vars

\* the order submission failed after an opposite side order was cancelled
C17_Witness ==
    \E c \in Trades :
        /\ cycles[c].pc = "delay" /\ cycles[c].cancelOk # {}
        /\ cycles[c].returned = TradeFailed(cycles[c].exec[cycles[c].j],
                                            "order submission failed")

\* C18: after a failed trade that is not the last of its cycle, the cycle
\* enters the trade of its next executable signal.
C18_FailedTradeDoesNotStopCycle ==
    [][ \A c \in Slots :
          (cycles[c].pc = "delay" /\ ~cycles[c].returned.success
              /\ cycles[c].j < Len(cycles[c].exec) /\ cycles'[c] # cycles[c]) =>
            /\ cycles'[c].pc = "query"
            /\ cycles'[c].j = cycles[c].j + 1
            /\ cycles'[c].exec = cycles[c].exec ]_vars

\* the second trade of a cycle has sent its order and the gateway has never
\* held an order: the first trade failed
C18_Witness ==
    \E c \in Trades :
        /\ cycles[c].pc = "submit" /\ cycles[c].j = 2
        /\ orders = << >>

-----------------------------------------------------------------------------
(* The filter of a cycle: SpecFilter *)

\* C13: when its batch is complete a cycle takes for execution exactly the
\* signals with shouldExecute, a confidence of at least the loop's minConfidence
\* and a signal other than HOLD, in the batch's order; its trades are those of
\* these signals, one after the other; and an order that is placed is the
\* order of such a signal.
C13_OnlyFilteredSignalsTraded ==
    [][ /\ \A c \in Slots :
              LET cy == cycles[c] IN
              /\ (BatchComplete(cy) /\ cycles'[c] # cy) =>
                    LET ex == ExecutableAt(cy.signals, minConfidence) IN
                    IF ex = << >>
                      THEN cycles'[c].pc = "idle"
                      ELSE /\ cycles'[c].pc = "query" /\ cycles'[c].j = 1
                           /\ cycles'[c].exec = ex
              /\ (cy.pc = "gen" /\ cycles'[c].pc = "query") => BatchComplete(cy)
              /\ (c \in Trades /\ cycles'[c] # cy /\ cycles'[c].pc # "idle") =>
                    /\ cycles'[c].exec = cy.exec
                    /\ cycles'[c].j = IF cy.pc = "delay" THEN cy.j + 1 ELSE cy.j
        /\ orders' # orders =>
              \E c \in Slots :
                  /\ cycles[c].pc = "submit"
                  /\ orders' = Append(orders, OrderData(cycles[c].exec[cycles[c].j],
                                                        cycles[c].positionSize)) ]_vars

\* an order was placed for a signal of a batch in which another signal, not a
\* HOLD and of a confidence of at least minConfidence, has no shouldExecute
C13_Witness ==
    \E c \in Trades :
        /\ cycles[c].returned.success
        /\ Len(cycles[c].exec) < Len(cycles[c].signals)
        /\ \E i \in 1..Len(cycles[c].signals) :
              LET s == cycles[c].signals[i] IN
              /\ ~s.shouldExecute /\ s.signal # "HOLD"
              /\ RGeq(s.confidence, minConfidence)

\* C15: every signal of a cycle's batch with shouldExecute has a confidence of
\* at least the loop's minConfidence, and the signals a cycle executes are the
\* signals of its batch with shouldExecute that are not HOLD.
C15_MinConfidenceRedundant ==
    \A c \in InFlight :
        /\ \A i \in 1..Len(cycles[c].signals) :
              cycles[c].signals[i].shouldExecute
                  => RGeq(cycles[c].signals[i].confidence, minConfidence)
        /\ c \in Trades =>
              cycles[c].exec = SelectSeq(cycles[c].signals,
                                 LAMBDA s : s.shouldExecute /\ s.signal # "HOLD")

-----------------------------------------------------------------------------
(* The batch of a cycle: SpecTick *)

\* C26: generateSignalsForSymbols returns one signal per symbol of its input, in
\* the input's order, one symbol at a time; a symbol that fails gives a HOLD
\* with confidence 0 at its place and the symbols after it are evaluated.
C26_BatchInInputOrder ==
    [][ \A c \in Slots :
          LET before == cycles[c]
              after  == cycles'[c]
          IN  /\ after.pc # "idle" =>
                    /\ Len(after.signals) <= Len(after.symbols)
                    /\ \A i \in DOMAIN after.signals :
                          /\ after.signals[i].symbol = after.symbols[i]
                          /\ after.signals[i].reason[1] = "Error: " =>
                                /\ after.signals[i].signal = "HOLD"
                                /\ after.signals[i].confidence = Zero
                    /\ after.pc # "gen" => Len(after.signals) = Len(after.symbols)
                    /\ before.pc = "idle" => Len(after.signals) <= 1
                    /\ before.pc # "idle" =>
                          /\ Len(after.signals) <= Len(before.signals) + 1
                          /\ SubSeq(after.signals, 1, Len(before.signals)) = before.signals
              /\ (before.pc = "gen" /\ after.pc # "gen") =>
                    Len(before.signals) = Len(before.symbols) ]_vars

\* the first symbol of the batch failed, the one after it was evaluated and is
\* being traded
C26_Witness ==
    \E c \in Trades :
        /\ Len(cycles[c].symbols) >= 2
        /\ cycles[c].signals[1].reason[1] = "Error: "
        /\ cycles[c].signals[1].signal = "HOLD"
        /\ cycles[c].signals[2].signal = "BUY"
        /\ cycles[c].exec[cycles[c].j].symbol = cycles[c].symbols[2]

-----------------------------------------------------------------------------
(* The requests to start and for the status: SpecStart *)

\* the body's intervalMinutes is outside 1..1440, or its symbols value is not
\* an array of strings
InvalidStart(body) ==
    \/ /\ IsGiven(body.intervalMinutes)
       /\ \/ ValueOf(body.intervalMinutes) < 1
          \/ ValueOf(body.intervalMinutes) > 1440
    \/ /\ IsGiven(body.symbols)
       /\ \/ ValueOf(body.symbols).type # "array"
          \/ \E i \in DOMAIN ValueOf(body.symbols).items :
                ValueOf(body.symbols).items[i].type # "string"

\* C27: a start request whose intervalMinutes is outside 1..1440 or whose
\* symbols value is not a list of strings is rejected, and isRunning, the
\* watchlist and the timer handle are after it what they were before.
C27_InvalidStartRejected ==
    [][ \A body \in offered.bodies :
          (InvalidStart(body) /\ PostStart(body)) =>
              /\ last'.op = "POST /start" /\ last'.arg = <<body, 400>>
              /\ UNCHANGED <<isRunning, watchedSymbols, tradingInterval, timers,
                             cycles>> ]_vars

\* a request with a symbols value that is no array was rejected while the
\* trader was running on a timer and not with the default watchlist
C27_Witness ==
    /\ last.op = "POST /start" /\ last.arg[2] = 400
    /\ IsGiven(last.arg[1].symbols) /\ ValueOf(last.arg[1].symbols).type = "string"
    /\ isRunning /\ tradingInterval # NullTimer
    /\ watchedSymbols # DefaultWatchlist

\* C28: getStatus changes no state, and the isRunning, watchedSymbols,
\* maxPositionSize and minConfidence that it returns are those of the state.
C28_StatusIsPureRead ==
    [][ last'.op = "getStatus" =>
          /\ UNCHANGED <<isRunning, watchedSymbols, maxPositionSize, minConfidence,
                         tradingInterval, timers, cycles, orders>>
          /\ last'.arg.isRunning = isRunning
          /\ last'.arg.watchedSymbols = watchedSymbols
          /\ last'.arg.maxPositionSize = maxPositionSize
          /\ last'.arg.minConfidence = minConfidence ]_vars

\* the status was read while the trader was running with a watchlist that a
\* start request had set and a cycle was in flight
C28_Witness ==
    /\ last.op = "getStatus"
    /\ last.arg.isRunning /\ last.arg.watchedSymbols = <<"MSFT">>
    /\ InFlight # {}

-----------------------------------------------------------------------------
(* The trades of a cycle, one after the other: SpecTrade *)

\* C29: the trades of a cycle are executed one after the other in the order of
\* its executable signals: the open-orders query of a trade is sent only as
\* the batch is complete, for the first one, or after the trade before it has
\* returned and the delay after it is over; a trade that has not returned is
\* the only one of its cycle.
C29_TradesSequential ==
    [][ \A c \in Slots :
          LET before == cycles[c]
              after  == cycles'[c]
          IN  /\ (after.pc = "query" /\ after # before) =>
                    \/ /\ before.pc = "gen"
                       /\ after.j = 1
                    \/ /\ before.pc = "delay"
                       /\ before.returned # NotReturned
                       /\ before.returned.signal = before.exec[before.j]
                       /\ after.j = before.j + 1
                       /\ after.exec = before.exec
              /\ after.pc \in {"query", "cancel", "settle", "submit"} =>
                    /\ after.returned = NotReturned
                    /\ after.j \in 1..Len(after.exec) ]_vars

\* the first trade of a cycle has placed its order and returned, the second
\* one has sent its open-orders query
C29_Witness ==
    \E c \in Trades :
        /\ cycles[c].pc = "query" /\ cycles[c].j = 2
        /\ \E o \in DOMAIN orders :
              /\ orders[o].tag = "automation_"
              /\ orders[o].symbol = cycles[c].exec[1].symbol

-----------------------------------------------------------------------------
(* Cycles in flight at the same time: SpecBusy *)

\* C30: nothing skips a cycle while another one is in flight: every timer tick
\* and every manual check begins a new cycle and leaves the cycles in flight
\* as they are, so that two cycles, and two trades of the same symbol, are in
\* progress at once.
C30_NoSkipIfBusy ==
    [][ last'.op \in {"tick", "check"} =>
          \E c \in Slots :
              /\ cycles[c].pc = "idle"
              /\ cycles'[c].pc = "gen"
              /\ cycles'[c].origin = IF last'.op = "tick" THEN "timer" ELSE "manual"
              /\ \A d \in Slots \ {c} : cycles'[d] = cycles[d] ]_vars

\* a cycle begun by the timer and one begun by a manual check are both
\* executing a trade of the same symbol
C30_Witness ==
    \E c, d \in Trades :
        /\ c # d
        /\ cycles[c].origin = "timer" /\ cycles[d].origin = "manual"
        /\ cycles[c].pc \in {"query", "submit"} /\ cycles[d].pc \in {"query", "submit"}
        /\ cycles[c].exec[cycles[c].j].symbol = cycles[d].exec[cycles[d].j].symbol

-----------------------------------------------------------------------------
(* The cancel requests of a trade: SpecTrade *)

\* C31: a trade sends a cancel request for every open order of its symbol
\* that the query returned on the other side than its signal, one after the
\* other and all before its order is sent; a cancel request that fails is
\* followed by the next one, or by the order, like one that succeeds; no
\* cancel request is sent for an order on the signal's side.
C31_OpposingCancelledBeforeSubmit ==
    [][ \A c \in Slots :
          LET before == cycles[c]
              after  == cycles'[c]
          IN  /\ after.pc \in {"cancel", "settle", "submit", "delay"} =>
                    /\ after.cancelReq \subseteq OpposingAnswered(after)
                    /\ \A o \in after.cancelReq :
                          /\ orders[o].symbol = after.exec[after.j].symbol
                          /\ orders[o].side # toLowerCase(after.exec[after.j].signal)
              /\ (after.pc = "submit" /\ after # before) =>
                    /\ before.pc \in {"query", "settle"}
                    /\ after.cancelReq = OpposingAnswered(after)
                    /\ before.pc = "query" => OpposingAnswered(after) = {}
              /\ (before.pc = "cancel" /\ after # before) =>
                    /\ after.opp = Tail(before.opp)
                    /\ after.existing = before.existing
                    /\ IF Tail(before.opp) = << >>
                         THEN after.pc = "settle" /\ after.cancelReq = before.cancelReq
                         ELSE /\ after.pc = "cancel"
                              /\ after.cancelReq =
                                    before.cancelReq \cup {Head(Tail(before.opp))} ]_vars

\* of two cancel requests of a trade the first one failed, the second one was
\* sent all the same, and the order was sent after them
C31_Witness ==
    \E c \in Trades :
        /\ cycles[c].pc = "submit"
        /\ Cardinality(cycles[c].cancelReq) = 2
        /\ Min(cycles[c].cancelReq) \notin cycles[c].cancelOk
        /\ orders[Min(cycles[c].cancelReq)].status = "open"

-----------------------------------------------------------------------------
(* The order of a trade: SpecOrder *)

\* C32: an order that the loop submits has the symbol of its signal, the
\* signal in lower case as its side, buy or sell, the quantity
\* getPositionSize(signal.confidence, maxPositionSize) that the trade computed
\* as it was entered, type market, time_in_force day and a tag that begins
\* with automation_.
C32_SubmittedOrderFields ==
    [][ /\ \A c \in Slots :
              (cycles'[c].pc = "query" /\ cycles'[c] # cycles[c]) =>
                  cycles'[c].positionSize =
                      getPositionSize(cycles'[c].exec[cycles'[c].j].confidence,
                                      maxPositionSize)
        /\ orders' # orders =>
              \E c \in Slots :
                  LET cy     == cycles[c]
                      signal == cy.exec[cy.j]
                      order  == orders'[Len(orders')]
                  IN  /\ cy.pc = "submit" /\ cycles'[c].result = "success"
                      /\ orders' = Append(orders, order)
                      /\ order.symbol = signal.symbol
                      /\ order.side = toLowerCase(signal.signal)
                      /\ order.side \in {"buy", "sell"}
                      /\ order.qty = cy.positionSize
                      /\ order.type = "market"
                      /\ order.time_in_force = "day"
                      /\ order.tag = "automation_" ]_vars

\* an order was placed with the quantity computed from a maxPositionSize that
\* updateParameters has replaced since
C32_Witness ==
    \E c \in Trades :
        /\ cycles[c].result = "success"
        /\ maxPositionSize = 5
        /\ orders[cycles[c].returned.orderId].qty =
              getPositionSize(cycles[c].exec[cycles[c].j].confidence, 10)
        /\ orders[cycles[c].returned.orderId].qty > maxPositionSize

-----------------------------------------------------------------------------
(* The gateway calls of a trade: SpecTrade *)

\* the places of the calls to the method in the calls of a trade
CallsTo(cy, method) == {i \in DOMAIN cy.calls : cy.calls[i][1] = method}

\* C33: no gateway call is sent again: a trade sends one open-orders query, for
\* each opposite side order at most one cancel request, and at most one order,
\* whichever of them fail.
C33_NoRetry ==
    \A c \in Trades :
        LET cy == cycles[c] IN
        /\ CallsTo(cy, "GET") = {1}
        /\ \A i, j \in CallsTo(cy, "DELETE") : cy.calls[i] = cy.calls[j] => i = j
        /\ \A i \in CallsTo(cy, "DELETE") : cy.calls[i][2] \in OpposingAnswered(cy)
        /\ Cardinality(CallsTo(cy, "POST")) <= 1
        /\ cy.result = "success" => Cardinality(CallsTo(cy, "POST")) = 1

\* a trade returned after a cancel request and the submission had failed:
\* one query, one cancel request and one order were sent
C33_Witness ==
    \E c \in Trades :
        /\ cycles[c].pc = "delay"
        /\ cycles[c].returned = TradeFailed(cycles[c].exec[cycles[c].j],
                                            "order submission failed")
        /\ cycles[c].cancelReq # {} /\ cycles[c].cancelOk = {}
        /\ Len(cycles[c].calls) = 3

\* C36: a trade whose open-orders query fails sends no cancel request and no
\* order: it returns its failure after the query alone.
C36_FailedQueryEndsTrade ==
    \A c \in Trades :
        cycles[c].queried = "failed" =>
            /\ cycles[c].calls = << <<"GET", 0>> >>
            /\ cycles[c].cancelReq = {}
            /\ cycles[c].pc = "delay"
            /\ cycles[c].result = "failed"
            /\ cycles[c].returned = TradeFailed(cycles[c].exec[cycles[c].j],
                                                "open orders query failed")

\* the query of a trade failed while an order of its symbol was open on the
\* other side
C36_Witness ==
    \E c \in Trades :
        /\ cycles[c].queried = "failed"
        /\ OppositeSideOrders(OpenOrders(cycles[c].exec[cycles[c].j].symbol),
                              cycles[c].exec[cycles[c].j]) # {}

-----------------------------------------------------------------------------
(* Termination: SpecFair *)

\* C34: every cycle that has begun completes: each slot of a call is free
\* again and again; and the cycle of a startTrading call completes with the
\* timer armed.
C34_CycleTerminates ==
    /\ \A c \in Slots : []<>(cycles[c].pc = "idle")
    /\ [][ \A c \in Slots :
              (/\ cycles[c].pc # "idle" /\ cycles[c].origin = "start"
               /\ cycles'[c].pc = "idle") =>
                  /\ tradingInterval' # NullTimer
                  /\ \E t \in timers' \ timers : t.id = tradingInterval' ]_vars

\* the cycle of a startTrading call has placed an order and completed, and
\* the timer is armed
C34_Witness ==
    /\ isRunning /\ startsSinceStop = 1
    /\ InFlight = {}
    /\ tradingInterval # NullTimer
    /\ \E o \in DOMAIN orders : orders[o].tag = "automation_"

-----------------------------------------------------------------------------
(* The two fields of the status: SpecStop *)

\* C35: the timer handle is armed, so that getStatus reports nextCheck
\* 'Running', only if isRunning is true.
C35_TimerOnlyWhileRunning == tradingInterval # NullTimer => isRunning

-----------------------------------------------------------------------------
(* A watchlist that names a symbol twice: SpecDup *)

\* C37: in one cycle at most one order is submitted per symbol: no symbol
\* occurs twice among the orders that a cycle has placed.
C37_OneOrderPerSymbol ==
    \A c \in InFlight :
        \A i, k \in 1..Len(cycles[c].submitted) :
            i # k => cycles[c].submitted[i] # cycles[c].submitted[k]

-----------------------------------------------------------------------------
(* The manual check: SpecFair *)

\* the step begins a manual cycle in slot c, or is a step of the one in it
ManualStep(c) ==
    \/ /\ cycles[c].pc = "idle" /\ cycles'[c].pc # "idle"
       /\ cycles'[c].origin = "manual"
    \/ /\ cycles[c].pc # "idle" /\ cycles[c].origin = "manual"
       /\ cycles'[c] # cycles[c]

\* C38: a manual check and the steps of its cycle leave isRunning, the timer
\* handle, the watchlist, maxPositionSize and minConfidence as they are; the
\* cycle filters its signals, goes from one trade to the next and submits its
\* orders by the same rule whether isRunning is true or false.
C38_ManualCheckFrame ==
    [][ \A c \in Slots : ManualStep(c) =>
            /\ UNCHANGED <<isRunning, tradingInterval, timers, watchedSymbols,
                           maxPositionSize, minConfidence>>
            /\ cycles[c].pc = "idle" => cycles'[c].symbols = watchedSymbols
            /\ (cycles[c].pc = "gen" /\ cycles'[c].pc # "gen") =>
                  LET exec == ExecutableSignals(cycles[c].signals) IN
                  IF exec = << >> THEN cycles'[c].pc = "idle"
                  ELSE /\ cycles'[c].pc = "query" /\ cycles'[c].j = 1
                       /\ cycles'[c].exec = exec
            /\ cycles[c].pc = "delay" =>
                  IF cycles[c].j < Len(cycles[c].exec)
                    THEN cycles'[c].pc = "query" /\ cycles'[c].j = cycles[c].j + 1
                    ELSE cycles'[c].pc = "idle"
            /\ (cycles[c].pc = "submit" /\ cycles'[c].result = "success") =>
                  orders' = Append(orders, OrderData(cycles[c].exec[cycles[c].j],
                                                     cycles[c].positionSize)) ]_vars

\* a manual check made while Stopped has placed the order of its second
\* trade, and isRunning is still false
C38_Witness ==
    /\ ~isRunning /\ tradingInterval = NullTimer
    /\ \E c \in InFlight :
          /\ cycles[c].origin = "manual" /\ ~cycles[c].runningAtTrade
          /\ cycles[c].j >= 2 /\ cycles[c].returned.success

\* the same while Running
C38_WitnessRunning ==
    /\ isRunning
    /\ \E c \in InFlight :
          /\ cycles[c].origin = "manual" /\ cycles[c].runningAtTrade
          /\ cycles[c].j >= 2 /\ cycles[c].returned.success

-----------------------------------------------------------------------------
(* The signals of a neutral RSI: SpecMock *)

Executed(cy) == cy.pc # "gen" /\ cy.returned.success

\* C39: every HOLD of a batch has confidence 0 and shouldExecute false, also
\* when the price is above or below SMA20; no HOLD is among the executable
\* signals, and no order is placed for one.
C39_HoldNeverExecuted ==
    \A c \in InFlight :
        /\ \A i \in 1..Len(cycles[c].signals) :
              cycles[c].signals[i].signal = "HOLD" =>
                  /\ cycles[c].signals[i].confidence = Zero
                  /\ ~cycles[c].signals[i].shouldExecute
        /\ \A i \in 1..Len(cycles[c].exec) : cycles[c].exec[i].signal # "HOLD"
        /\ Executed(cycles[c]) => cycles[c].exec[cycles[c].j].signal # "HOLD"

\* a batch holds a HOLD whose price is above SMA20 and one of a call that
\* threw, and the cycle has placed the order of another signal of the batch
C39_Witness ==
    \E c \in InFlight :
        /\ \E i \in 1..Len(cycles[c].signals) :
              /\ cycles[c].signals[i].reason = <<"RSI neutral">>
              /\ cycles[c].signals[i].signal = "HOLD"
        /\ Executed(cycles[c])
        /\ Len(cycles[c].exec) < Len(cycles[c].signals)

IsMock(signal, side) ==
    /\ signal.signal = side
    /\ signal.reason[1] \in {"Mock BUY signal for testing",
                              "Mock SELL signal for testing"}

====
